---------------------------- MODULE Spec2Model ----------------------------
(***************************************************************************)
(* State-machine model of the template/task front end of snapped-web:      *)
(*   - TaskTemplate/TaskTemplate.js   (the grouped template component)     *)
(*   - TaskManager/TaskTemplate.js    (the flat template component)        *)
(*   - TaskModal (unnamed/part_002)   (the task modal, completion flow)    *)
(* React state hooks are the variables; every event handler and every      *)
(* continuation of an async handler (after an await) is one action.  A     *)
(* handler reads the state of the render it was created in: an async       *)
(* handler therefore carries a snapshot (its closure) of what it reads     *)
(* after its awaits.                                                       *)
(***************************************************************************)
EXTENDS Integers, Sequences, FiniteSets, TLC

\* ------------------------------------------------------------------ bounds
MaxLen == 3          \* longest template list drawn as an input of the grouping
MaxCalls == 2        \* async handler invocations in flight at once
MaxOps == 2          \* async handler invocations the user starts in a run
MaxId == 4           \* the last _id the server assigns
HoursDen == 200      \* the hours input is a multiple of 1/HoursDen hour
MaxHoursNum == 3     \* largest hours input, in halves of an hour
MaxMinutes == 59     \* largest additional-minutes input
MaxCompletions == 1  \* handleComplete invocations in a run
MaxEdits == 1        \* edits of other clients the server accepts in a run
MaxModalOps == 1     \* async handler invocations of the modal's form in a run
MaxDeletes == 1      \* delete and group delete invocations in a run

\* ------------------------------------------------------------- optionals
\* JavaScript's undefined/null against a value: the empty or the one-element
\* sequence.
None == << >>
Some(x) == << x >>
IsSome(o) == o # << >>
Get(o) == o[1]

\* ------------------------------------------------------------ sequences
RECURSIVE FilterType(_, _)
\* list.filter(a => a.type === type)
FilterType(list, type) ==
    IF list = << >> THEN << >>
    ELSE IF Head(list).type = type
         THEN << Head(list) >> \o FilterType(Tail(list), type)
         ELSE FilterType(Tail(list), type)

Range(s) == { s[i] : i \in 1..Len(s) }

\* ------------------------------------------------------------ directory
\* The assignees the search endpoint knows (id, name, type).
Acme == [id |-> "c1", name |-> "Acme", type |-> "client"]
Bolt == [id |-> "c2", name |-> "Bolt", type |-> "client"]
Eve == [id |-> "e1", name |-> "Eve", type |-> "employee"]
Directory == { Acme, Bolt, Eve }
Clients == { a \in Directory : a.type = "client" }
Employees == { a \in Directory : a.type = "employee" }

\* ------------------------------------------------------------ templates
\* formData's default (useState, resetForm).
DefaultForm ==
    [ title |-> "", description |-> "", frequency |-> "daily",
      priority |-> "medium", job_type |-> "", assignees |-> Some(<< >>),
      is_active |-> TRUE ]

\* A server record: the form's fields plus the server-assigned _id.
Template(id, title, assignees, active) ==
    [ _id |-> id, title |-> title, description |-> "d", frequency |-> "daily",
      priority |-> "medium", job_type |-> "j", assignees |-> assignees,
      is_active |-> active ]

VARIABLES
    mounted,                  \* which component this state belongs to
    sessionGroups,            \* the session's 'cognito:groups' claim
    server,                   \* the server's template list (GET's response.data)
    nextId,                   \* the _id the server assigns next
    timesheet,                \* the server's timesheet entries
    serverTasks,              \* the server's tasks, by _id
    otherEdits,               \* the edits of other clients the server accepted
    calls,                    \* async handler invocations in flight, by slot
    started,                  \* how many of them the user has started
    templates,                \* useState([])
    expandedGroups,           \* useState({}): group key -> boolean
    isOpen,                   \* useState(false): the form modal
    editingTemplate,          \* useState(null)
    formData,                 \* useState({title: '', ...})
    selectedAssignees,        \* useState([])
    searchQuery,              \* useState('')
    searchResults,            \* useState([])
    isAdmin,                  \* useState(false)
    authSession,              \* the mount's fetchAuthSession: "pending" or "done"
    toasts,                   \* the toast messages shown so far
    isBulkCopyModalOpen,      \* useState(false)
    selectedClientTemplates,  \* useState(null)
    newClientSearchQuery,     \* useState('')
    newClientSearchResults,   \* useState([])
    show,                     \* TaskModal's prop
    task,                     \* TaskModal's prop
    editMode,                 \* TaskModal's prop
    userGroups,               \* useState([])
    assigneeOptions,          \* useState([])
    isCompleting,             \* useState(false)
    completionData,           \* useState({hours: 0, minutes: 0, notes: ''})
    submitted,                \* what the onSubmit prop was called with
    searchLog                 \* history: the searches asked and the responses handled

serverVars == << server, nextId, timesheet, serverTasks, otherEdits >>
listVars == << templates, expandedGroups >>
formVars == << isOpen, editingTemplate, formData, selectedAssignees >>
searchVars == << searchQuery, searchResults >>
adminVars == << isAdmin, authSession, toasts >>
bulkVars == << isBulkCopyModalOpen, selectedClientTemplates,
               newClientSearchQuery, newClientSearchResults >>

modalVars == << show, task, editMode, userGroups, assigneeOptions,
               isCompleting, completionData, submitted >>

vars == << mounted, sessionGroups, serverVars, calls, started, listVars,
           formVars, searchVars, adminVars, bulkVars, modalVars, searchLog >>

\* The events of the search history.
Asked(query) == [ op |-> "asked", query |-> query ]
Handled(query) == [ op |-> "handled", query |-> query ]

\* ------------------------------------------------------------- grouping
\* A find that keeps the last client-type assignee instead of the first.
RECURSIVE FindLastClient(_)
FindLastClient(list) ==
    IF list = << >> THEN None
    ELSE IF IsSome(FindLastClient(Tail(list))) THEN FindLastClient(Tail(list))
    ELSE IF Head(list).type = "client" THEN Some(Head(list))
    ELSE None

\* template.assignees?.find(a => a.type === 'client'): the first client-type
\* assignee, None when there is none or no assignee list.
RECURSIVE FindClient(_)
FindClient(list) ==
    IF list = << >> THEN None
    ELSE IF Head(list).type = "client" THEN Some(Head(list))
    ELSE FindClient(Tail(list))

ClientAssignee(template) ==
    IF IsSome(template.assignees) THEN FindClient(Get(template.assignees))
    ELSE None

\* clientAssignee ? clientAssignee.name : 'unassigned'
GroupKey(template) ==
    IF IsSome(ClientAssignee(template)) THEN Get(ClientAssignee(template)).name
    ELSE "unassigned"

\* A reduce step that starts the group anew with every template.
PushGroupAnew(groups, template) ==
    [ k \in DOMAIN groups \cup { GroupKey(template) } |->
        IF k = GroupKey(template) THEN << template >> ELSE groups[k] ]

\* One step of the reduce: create the group if missing, push the template.
PushGroup(groups, template) ==
    LET groupKey == GroupKey(template)
        old == IF groupKey \in DOMAIN groups THEN groups[groupKey] ELSE << >>
    IN [ k \in DOMAIN groups \cup { groupKey } |->
           IF k = groupKey THEN Append(old, template) ELSE groups[k] ]

RECURSIVE ReduceGroups(_, _)
ReduceGroups(groups, ts) ==
    IF ts = << >> THEN groups
    ELSE ReduceGroups(PushGroup(groups, Head(ts)), Tail(ts))

\* templates.reduce(..., {})
EmptyObject == [ k \in {} |-> << >> ]
GroupedTemplates(ts) == ReduceGroups(EmptyObject, ts)


\* ---------------------------------------------------------------- calls
\* An invocation of an async handler: the function it is in (kind) and the
\* handler that was invoked (by: fetchTemplates runs on mount and as the last
\* call of a handler), what it reads of the render it was created in after
\* its awaits (closure: the expandedGroups read by fetchTemplates), and the
\* HTTP requests it has issued, each with its status and response data.  getAccessToken
\* (AuthContext) is taken to resolve: a handler's request is issued with its
\* invocation.
Slots == 1..MaxCalls
EmptyMap == [ k \in {} |-> FALSE ]
Idle == [ kind |-> "idle", by |-> "idle", closure |-> EmptyMap, reqs |-> << >> ]
Req(method, id, body) ==
    [ method |-> method, id |-> id, body |-> body, status |-> "sent",
      data |-> None ]
Call(kind, by, eg, reqs) ==
    [ kind |-> kind, by |-> by, closure |-> eg, reqs |-> reqs ]

Free(s) == calls[s].kind = "idle"
HasFree == \E s \in Slots : Free(s)
FreeSlot == CHOOSE s \in Slots : Free(s) /\ \A r \in Slots : Free(r) => s <= r
Statuses(c) == { c.reqs[i].status : i \in 1..Len(c.reqs) }
\* Promise.all (and a single await): fulfilled when every request is, rejected
\* as soon as one is.
Fulfilled(c) == c.reqs # << >> /\ Statuses(c) = { "ok" }
Rejected(c) == Statuses(c) \cap { "err", "forbidden" } # {}
\* A catch that cancels the requests still on their way.
Cancelled(c) == Idle

\* What is left of an invocation whose catch has run: the requests that are
\* still on their way (nothing cancels them).
Leftover(c) ==
    IF "sent" \in Statuses(c) THEN [ c EXCEPT !.kind = "orphan" ] ELSE Idle
StartWith(kind, closure, reqs) ==
    /\ calls' = [ calls EXCEPT ![FreeSlot] = Call(kind, kind, closure, reqs) ]
    /\ started' = started + 1
Start(kind, reqs) == StartWith(kind, expandedGroups, reqs)

\* --------------------------------------------------------------- server
\* The REST backend, one request at a time.
Position(id) == { i \in 1..Len(server) : server[i]._id = id }
WithId(body, id) ==
    [ f \in (DOMAIN body) \cup { "_id" } |-> IF f = "_id" THEN id ELSE body[f] ]
Remove(list, i) == SubSeq(list, 1, i - 1) \o SubSeq(list, i + 1, Len(list))
CanCreate == nextId <= MaxId

\* What search_assignees may answer (response.data.assignees, or a body
\* without the field).
SearchData == { None, Some(<< Acme, Eve >>), Some(<< Bolt >>) }

Outcome(status, list, id, data) ==
    [ status |-> status, server |-> list, nextId |-> id, data |-> data,
      timesheet |-> timesheet, serverTasks |-> serverTasks ]

Mutating == { "POST", "PUT", "DELETE", "DUPLICATE" }

\* The outcomes of one request: it fails (network, 5xx) and changes nothing;
\* a template mutation of a session without the ADMIN group is refused (403);
\* otherwise it may succeed with its effect.
ServerOutcomes(r) ==
    { Outcome("err", server, nextId, None) }
    \cup
    IF r.method \in Mutating /\ "ADMIN" \notin sessionGroups
    THEN { Outcome("forbidden", server, nextId, None) }
    ELSE
    CASE r.method = "GET" ->
           { Outcome("ok", server, nextId, Some(server)) }
      [] r.method = "SEARCH" ->
           { Outcome("ok", server, nextId, Some(d)) : d \in SearchData }
      [] r.method = "POST" ->
           IF CanCreate
           THEN { Outcome("ok", Append(server, WithId(Get(r.body), nextId)),
                          nextId + 1, None) }
           ELSE {}
      [] r.method = "DUPLICATE" ->
           IF CanCreate /\ Position(r.id) # {}
           THEN { Outcome("ok",
                    Append(server,
                           WithId(server[CHOOSE i \in Position(r.id) : TRUE],
                                  nextId)),
                    nextId + 1, None) }
           ELSE {}
      [] r.method = "PUT" ->
           { Outcome("ok", [ server EXCEPT ![i] = WithId(Get(r.body), r.id) ],
                     nextId, None) : i \in Position(r.id) }
      [] r.method = "DELETE" ->
           { Outcome("ok", Remove(server, i), nextId, None) :
               i \in Position(r.id) }
      [] r.method = "POST_ENTRY" ->
           { [ Outcome("ok", server, nextId, None) EXCEPT
                 !.timesheet = Append(timesheet, Get(r.body)) ] }
      [] r.method = "ONSUBMIT" ->
           { Outcome("ok", server, nextId, None) }
      [] r.method = "PUT_TASK" ->
           { [ Outcome("ok", server, nextId, None) EXCEPT
                 !.serverTasks = [ serverTasks EXCEPT ![r.id] = Get(r.body) ] ] }

ServerStep(s, i) ==
    /\ calls[s].kind # "idle"
    /\ i \in 1..Len(calls[s].reqs)
    /\ calls[s].reqs[i].status = "sent"
    /\ \E o \in ServerOutcomes(calls[s].reqs[i]) :
         LET c == [ calls[s] EXCEPT !.reqs[i].status = o.status,
                                    !.reqs[i].data = o.data ]
         IN /\ server' = o.server
            /\ nextId' = o.nextId
            /\ timesheet' = o.timesheet
            /\ serverTasks' = o.serverTasks
            /\ otherEdits' = otherEdits
            /\ calls' = [ calls EXCEPT ![s] =
                            IF c.kind = "orphan" THEN Leftover(c) ELSE c ]
    /\ UNCHANGED << mounted, searchLog, sessionGroups, modalVars, started, listVars, formVars, searchVars, adminVars,
                    bulkVars >>

\* The titles another client gives a template.
OtherTitles == { "x" }

\* Another client's update of a template's title, accepted by the server.
OtherClientEdit(id, title) ==
    /\ Cardinality(otherEdits) < MaxEdits
    /\ \E i \in Position(id) :
         /\ server[i].title # title
         /\ server' = [ server EXCEPT ![i].title = title ]
    /\ otherEdits' = otherEdits \cup { [ id |-> id, title |-> title ] }
    /\ UNCHANGED << mounted, searchLog, sessionGroups, nextId, timesheet, serverTasks,
                    calls, started, listVars, formVars, searchVars, adminVars,
                    bulkVars, modalVars >>

\* The session loses the ADMIN group (the component has read it on mount).
RevokeAdmin ==
    /\ "ADMIN" \in sessionGroups
    /\ sessionGroups' = sessionGroups \ { "ADMIN" }
    /\ UNCHANGED << mounted, searchLog, serverVars, calls, started, listVars, formVars,
                    searchVars, adminVars, bulkVars, modalVars >>

\* ------------------------------------------- TaskTemplate/TaskTemplate.js
Grouped == mounted = "TaskTemplate"
\* .task-modal-overlay covers the page: what lies under an open modal takes
\* no click.
PageClickable == ~isOpen /\ ~isBulkCopyModalOpen
Truthy(map, k) == k \in DOMAIN map /\ map[k]
\* The rows of a group are rendered while expandedGroups[clientName] is truthy.
RowShown(t) == Truthy(expandedGroups, GroupKey(t))

\* A fetchTemplates that issues no request.
NoFetchCall(by, eg) == Idle

\* fetchTemplates, up to its request.
FetchCall(by, eg) == Call("fetch", by, eg, << Req("GET", 0, None) >>)

\* The keys fetchTemplates adds: those of the response that the
\* expandedGroups of its closure does not hold, each collapsed.
NewGroups(data, eg) ==
    [ k \in { GroupKey(data[i]) : i \in 1..Len(data) } \ DOMAIN eg |-> FALSE ]

\* prev => ({...prev, ...newGroups})
Spread(prev, new) ==
    [ k \in DOMAIN prev \cup DOMAIN new |->
        IF k \in DOMAIN new THEN new[k] ELSE prev[k] ]

\* A fetch that merges the response into the list it holds.
MergedTemplates(data) == templates \o data

\* setTemplates(response.data): the list is replaced by the response.
SetTemplates(data) == data

\* fetchTemplates after axios.get resolved.
FetchTemplatesThen(s) ==
    /\ Grouped
    /\ calls[s].kind = "fetch"
    /\ Fulfilled(calls[s])
    /\ LET data == Get(calls[s].reqs[1].data)
       IN /\ templates' = SetTemplates(data)
          /\ expandedGroups' =
               Spread(expandedGroups, NewGroups(data, calls[s].closure))
    /\ calls' = [ calls EXCEPT ![s] = Idle ]
    /\ UNCHANGED << mounted, searchLog, sessionGroups, modalVars, started, serverVars, formVars, searchVars, adminVars,
                    bulkVars >>

\* fetchTemplates' catch: console.error only.
FetchTemplatesCatch(s) ==
    /\ calls[s].kind = "fetch"
    /\ Rejected(calls[s])
    /\ calls' = [ calls EXCEPT ![s] = Idle ]
    /\ UNCHANGED << mounted, searchLog, sessionGroups, modalVars, started, serverVars, listVars, formVars, searchVars,
                    adminVars, bulkVars >>

\* checkAdminStatus after fetchAuthSession: groups.includes('ADMIN'), and
\* false when the session could not be read (the catch).
CheckAdminStatusDone(sessionRead) ==
    /\ Grouped
    /\ authSession = "pending"
    /\ authSession' = "done"
    /\ isAdmin' = (sessionRead /\ "ADMIN" \in sessionGroups)
    /\ UNCHANGED << mounted, searchLog, sessionGroups, modalVars, started, serverVars, calls, listVars, formVars, searchVars,
                    toasts, bulkVars >>

\* A toggle that only ever expands.
Expanded(prev, groupKey) ==
    [ k \in DOMAIN prev \cup { groupKey } |->
        IF k = groupKey THEN TRUE ELSE prev[k] ]

\* toggleGroup: prev => ({...prev, [groupKey]: !prev[groupKey]})
Toggled(prev, groupKey) ==
    [ k \in DOMAIN prev \cup { groupKey } |->
        IF k = groupKey THEN ~Truthy(prev, groupKey) ELSE prev[k] ]

ToggleGroup(groupKey) ==
    /\ Grouped
    /\ PageClickable
    /\ groupKey \in DOMAIN GroupedTemplates(templates)
    /\ expandedGroups' = Toggled(expandedGroups, groupKey)
    /\ UNCHANGED << mounted, searchLog, sessionGroups, modalVars, started, serverVars, calls, templates, formVars,
                    searchVars, adminVars, bulkVars >>

\* A reset that leaves the template being edited.
ResetFormData ==
    /\ formData' = DefaultForm
    /\ selectedAssignees' = << >>
    /\ editingTemplate' = editingTemplate

\* resetForm
ResetForm ==
    /\ formData' = DefaultForm
    /\ selectedAssignees' = << >>
    /\ editingTemplate' = None

\* The Create Template button: resetForm(); setIsOpen(true).
OpenCreate ==
    /\ Grouped
    /\ PageClickable
    /\ ResetForm
    /\ isOpen' = TRUE
    /\ UNCHANGED << mounted, searchLog, sessionGroups, modalVars, started, serverVars, calls, listVars, searchVars,
                    adminVars, bulkVars >>

\* The modal's close and Cancel buttons: setIsOpen(false); resetForm().
CloseForm ==
    /\ Grouped
    /\ isOpen
    /\ isOpen' = FALSE
    /\ ResetForm
    /\ UNCHANGED << mounted, searchLog, sessionGroups, modalVars, started, serverVars, calls, listVars, searchVars,
                    adminVars, bulkVars >>

\* The form's fields of a record (handleEdit copies them one by one).
FormOf(template) ==
    [ f \in DOMAIN DefaultForm |-> template[f] ]

\* handleEdit
HandleEdit(template) ==
    /\ Grouped
    /\ PageClickable
    /\ RowShown(template)
    /\ editingTemplate' = Some(template)
    /\ formData' = FormOf(template)
    /\ selectedAssignees' =
         IF IsSome(template.assignees) THEN Get(template.assignees) ELSE << >>
    /\ isOpen' = TRUE
    /\ UNCHANGED << mounted, searchLog, sessionGroups, modalVars, started, serverVars, calls, listVars, searchVars,
                    adminVars, bulkVars >>

\* The inputs of the template form marked required, and what is typed.
RequiredFields == { "title", "description", "job_type" }
FieldValues == { "", "t" }
\* The inputs the user types into.
TypedFields == { "title" }

\* onChange of a text input of the form (the same in both template
\* components): setFormData({...formData, [field]: e.target.value}).
HandleFieldChange(field, value) ==
    /\ mounted \in { "TaskTemplate", "TaskManager/TaskTemplate" }
    /\ isOpen
    /\ formData[field] # value
    /\ formData' = [ formData EXCEPT ![field] = value ]
    /\ UNCHANGED << mounted, searchLog, sessionGroups, modalVars, started, serverVars,
                    calls, listVars, isOpen, editingTemplate,
                    selectedAssignees, searchVars, adminVars, bulkVars >>

\* {...editingTemplate, title: formData.title, ...}
UpdateData(template, form) ==
    [ f \in DOMAIN template |->
        IF f \in DOMAIN form THEN form[f] ELSE template[f] ]

\* A handleSubmit without the isAdmin check.
HandleSubmitUnchecked ==
    /\ Grouped
    /\ isOpen
    /\ HasFree
    /\ Start("submit",
         IF IsSome(editingTemplate)
         THEN << Req("PUT", Get(editingTemplate)._id,
                     Some(UpdateData(Get(editingTemplate), formData))) >>
         ELSE << Req("POST", 0, Some(formData)) >>)
    /\ UNCHANGED << mounted, searchLog, sessionGroups, modalVars, serverVars, listVars, formVars, searchVars,
                    adminVars, bulkVars >>

\* handleSubmit, up to its request (the form's onSubmit and the footer
\* button's onClick both call it).
HandleSubmit ==
    /\ Grouped
    /\ isOpen
    /\ IF ~isAdmin
       THEN /\ toasts' = toasts \cup { "no permission to create or edit" }
            /\ UNCHANGED << calls, started >>
       ELSE /\ HasFree
            /\ Start("submit",
                 IF IsSome(editingTemplate)
                 THEN << Req("PUT", Get(editingTemplate)._id,
                             Some(UpdateData(Get(editingTemplate), formData))) >>
                 ELSE << Req("POST", 0, Some(formData)) >>)
            /\ UNCHANGED toasts
    /\ UNCHANGED << mounted, searchLog, sessionGroups, modalVars, serverVars, listVars, formVars, searchVars,
                    isAdmin, authSession, bulkVars >>

\* handleSubmit after its request resolved: setIsOpen(false);
\* fetchTemplates(); resetForm().
HandleSubmitThen(s) ==
    /\ calls[s].kind = "submit"
    /\ Fulfilled(calls[s])
    /\ isOpen' = FALSE
    /\ calls' = [ calls EXCEPT ![s] = FetchCall(calls[s].by, calls[s].closure) ]
    /\ ResetForm
    /\ UNCHANGED << mounted, searchLog, sessionGroups, modalVars, started, serverVars, listVars, searchVars, adminVars,
                    bulkVars >>

\* A catch that closes the modal and resets the form as a success does.
HandleSubmitCatchClosing(s) ==
    /\ calls[s].kind = "submit"
    /\ Rejected(calls[s])
    /\ isOpen' = FALSE
    /\ ResetForm
    /\ calls' = [ calls EXCEPT ![s] = Leftover(calls[s]) ]
    /\ UNCHANGED << mounted, searchLog, sessionGroups, modalVars, started, serverVars, listVars, searchVars, adminVars,
                    bulkVars >>

\* handleSubmit's catch: console.error, and a toast on a 403.
HandleSubmitCatch(s) ==
    /\ calls[s].kind = "submit"
    /\ Rejected(calls[s])
    /\ toasts' = IF "forbidden" \in Statuses(calls[s])
                 THEN toasts \cup { "no permission to perform this action" }
                 ELSE toasts
    /\ calls' = [ calls EXCEPT ![s] = Leftover(calls[s]) ]
    /\ UNCHANGED << mounted, searchLog, sessionGroups, modalVars, started, serverVars, listVars, formVars, searchVars,
                    isAdmin, authSession, bulkVars >>

\* A toggle that sends the record as it is.
SameRecord(template, currentStatus) == template

\* {...template, is_active: !currentStatus}
ToggledRecord(template, currentStatus) ==
    [ template EXCEPT !.is_active = ~currentStatus ]

\* templates.find(t => t._id === templateId)
FindTemplate(list, templateId) ==
    list[CHOOSE i \in 1..Len(list) :
           /\ list[i]._id = templateId
           /\ \A j \in 1..(i - 1) : list[j]._id # templateId]

\* handleToggleActive(template._id, template.is_active), up to its request.
HandleToggleActive(template) ==
    /\ Grouped
    /\ PageClickable
    /\ RowShown(template)
    /\ HasFree
    /\ Start("toggleActive",
         << Req("PUT", template._id,
                Some(ToggledRecord(FindTemplate(templates, template._id),
                                   template.is_active))) >>)
    /\ UNCHANGED << mounted, searchLog, sessionGroups, modalVars, serverVars, listVars, formVars, searchVars,
                    adminVars, bulkVars >>

\* handleDuplicate, up to its request.
HandleDuplicate(template) ==
    /\ Grouped
    /\ PageClickable
    /\ RowShown(template)
    /\ HasFree
    /\ Start("duplicate", << Req("DUPLICATE", template._id, None) >>)
    /\ UNCHANGED << mounted, searchLog, sessionGroups, modalVars, serverVars, listVars, formVars, searchVars,
                    adminVars, bulkVars >>

\* handleDelete, up to its request: it returns when window.confirm is
\* declined.
HandleDelete(template, confirmed) ==
    /\ Grouped
    /\ PageClickable
    /\ RowShown(template)
    /\ IF confirmed
       THEN /\ HasFree
            /\ Start("delete", << Req("DELETE", template._id, None) >>)
       ELSE UNCHANGED << calls, started >>
    /\ UNCHANGED << mounted, searchLog, sessionGroups, modalVars, serverVars, listVars, formVars, searchVars,
                    adminVars, bulkVars >>

\* A group delete that deletes the first template of the group only.
DeleteFirst(clientTemplates) ==
    << Req("DELETE", clientTemplates[1]._id, None) >>

\* templates.map(template => axios.delete(.../template._id))
DeletePromises(clientTemplates) ==
    [ i \in 1..Len(clientTemplates) |->
        Req("DELETE", clientTemplates[i]._id, None) ]

\* handleDeleteGroup(clientTemplates), up to its requests: it returns when
\* window.confirm is declined; otherwise one DELETE per template of the
\* group, all issued before Promise.all is awaited.  The group's buttons are
\* rendered for every group but 'unassigned'.
HandleDeleteGroup(clientName, confirmed) ==
    /\ Grouped
    /\ PageClickable
    /\ clientName \in DOMAIN GroupedTemplates(templates)
    /\ clientName # "unassigned"
    /\ IF confirmed
       THEN /\ HasFree
            /\ Start("deleteGroup",
                 DeletePromises(GroupedTemplates(templates)[clientName]))
       ELSE UNCHANGED << calls, started >>
    /\ UNCHANGED << mounted, searchLog, sessionGroups, modalVars, serverVars, listVars, formVars, searchVars,
                    adminVars, bulkVars >>

Refetching == { "toggleActive", "duplicate", "delete", "deleteGroup" }

\* handleToggleActive, handleDuplicate, handleDelete and handleDeleteGroup
\* after their await: fetchTemplates().
MutationThen(s) ==
    /\ calls[s].kind \in Refetching
    /\ Fulfilled(calls[s])
    /\ calls' = [ calls EXCEPT ![s] = FetchCall(calls[s].by, calls[s].closure) ]
    /\ UNCHANGED << mounted, searchLog, sessionGroups, modalVars, started, serverVars, listVars, formVars, searchVars,
                    adminVars, bulkVars >>

\* Their catch: console.error only.
MutationCatch(s) ==
    /\ calls[s].kind \in Refetching
    /\ Rejected(calls[s])
    /\ calls' = [ calls EXCEPT ![s] = Leftover(calls[s]) ]
    /\ UNCHANGED << mounted, searchLog, sessionGroups, modalVars, started, serverVars, listVars, formVars, searchVars,
                    adminVars, bulkVars >>

\* The queries typed into a search box.
Queries == { "", "a", "ab" }

\* The group's copy button: setSelectedClientTemplates([...clientTemplates]);
\* setBulkCopyModalOpen(true).
OpenBulkCopy(clientName) ==
    /\ Grouped
    /\ PageClickable
    /\ clientName \in DOMAIN GroupedTemplates(templates)
    /\ clientName # "unassigned"
    /\ selectedClientTemplates' = Some(GroupedTemplates(templates)[clientName])
    /\ isBulkCopyModalOpen' = TRUE
    /\ UNCHANGED << mounted, searchLog, sessionGroups, modalVars, started, serverVars, calls, listVars, formVars, searchVars,
                    adminVars, newClientSearchQuery, newClientSearchResults >>

\* The bulk copy modal's close button.
CloseBulkCopy ==
    /\ Grouped
    /\ isBulkCopyModalOpen
    /\ isBulkCopyModalOpen' = FALSE
    /\ selectedClientTemplates' = None
    /\ newClientSearchQuery' = ""
    /\ newClientSearchResults' = << >>
    /\ UNCHANGED << mounted, searchLog, sessionGroups, modalVars, started, serverVars, calls, listVars, formVars, searchVars,
                    adminVars >>

\* The bulk copy modal's search box (onChange) and searchClients up to its
\* request.
BulkSearchChange(value) ==
    /\ Grouped
    /\ isBulkCopyModalOpen
    /\ newClientSearchQuery' = value
    /\ IF Len(value) >= 2
       THEN /\ HasFree
            /\ Start("searchClients", << Req("SEARCH", 0, Some(value)) >>)
            /\ UNCHANGED newClientSearchResults
       ELSE /\ newClientSearchResults' = << >>
            /\ UNCHANGED << calls, started >>
    /\ searchLog' = IF calls' # calls THEN Append(searchLog, Asked(value))
                               ELSE searchLog
    /\ UNCHANGED << mounted, sessionGroups, modalVars, serverVars, listVars, formVars, searchVars,
                    adminVars, isBulkCopyModalOpen, selectedClientTemplates >>

\* A response whose assignees are dropped.
NoAssignees(data) == << >>

\* response.data.assignees || []
AssigneesOrEmpty(data) == IF IsSome(data) THEN Get(data) ELSE << >>

\* searchClients after its request resolved: the clients of the answer.
SearchClientsThen(s) ==
    /\ calls[s].kind = "searchClients"
    /\ Fulfilled(calls[s])
    /\ newClientSearchResults' =
         FilterType(AssigneesOrEmpty(Get(calls[s].reqs[1].data)), "client")
    /\ calls' = [ calls EXCEPT ![s] = Idle ]
    /\ searchLog' = Append(searchLog, Handled(Get(calls[s].reqs[1].body)))
    /\ UNCHANGED << mounted, sessionGroups, modalVars, started, serverVars, listVars, formVars, searchVars,
                    adminVars, isBulkCopyModalOpen, selectedClientTemplates,
                    newClientSearchQuery >>

\* searchClients' catch: console.error; setNewClientSearchResults([]).
SearchClientsCatch(s) ==
    /\ calls[s].kind = "searchClients"
    /\ Rejected(calls[s])
    /\ newClientSearchResults' = << >>
    /\ calls' = [ calls EXCEPT ![s] = Idle ]
    /\ UNCHANGED << mounted, searchLog, sessionGroups, modalVars, started, serverVars, listVars, formVars, searchVars,
                    adminVars, isBulkCopyModalOpen, selectedClientTemplates,
                    newClientSearchQuery >>

\* A copy that keeps every assignee of its source.
NewTemplateKeepingAll(template, newClient) ==
    [ [ f \in (DOMAIN template) \ { "_id" } |-> template[f] ]
        EXCEPT !.assignees =
          Some((IF template.assignees = << >> THEN << >>
                ELSE template.assignees[1])
               \o << [ id |-> newClient.id, name |-> newClient.name,
                       type |-> "client" ] >>) ]

\* The copy handleBulkCopy makes of one template: without _id, its employee
\* assignees kept, the new client appended.
WithoutId(template) == [ f \in (DOMAIN template) \ { "_id" } |-> template[f] ]
NewTemplate(template, newClient) ==
    [ WithoutId(template) EXCEPT !.assignees =
        Some(FilterType(AssigneesOrEmpty(template.assignees), "employee")
             \o << [ id |-> newClient.id, name |-> newClient.name,
                     type |-> "client" ] >>) ]

\* handleBulkCopy(result), up to its requests: one POST per selected template,
\* all issued before Promise.all is awaited.
HandleBulkCopy(newClient) ==
    /\ Grouped
    /\ isBulkCopyModalOpen
    /\ newClient \in Range(newClientSearchResults)
    /\ IsSome(selectedClientTemplates)
    /\ HasFree
    /\ LET selected == Get(selectedClientTemplates)
       IN Start("bulkCopy",
            [ i \in 1..Len(selected) |->
                Req("POST", 0, Some(NewTemplate(selected[i], newClient))) ])
    /\ UNCHANGED << mounted, searchLog, sessionGroups, modalVars, serverVars, listVars, formVars, searchVars,
                    adminVars, bulkVars >>

\* handleBulkCopy after Promise.all resolved.
HandleBulkCopyThen(s) ==
    /\ calls[s].kind = "bulkCopy"
    /\ Fulfilled(calls[s])
    /\ isBulkCopyModalOpen' = FALSE
    /\ selectedClientTemplates' = None
    /\ newClientSearchQuery' = ""
    /\ newClientSearchResults' = << >>
    /\ calls' = [ calls EXCEPT ![s] = FetchCall(calls[s].by, calls[s].closure) ]
    /\ UNCHANGED << mounted, searchLog, sessionGroups, modalVars, started, serverVars, listVars, formVars, searchVars,
                    adminVars >>

\* handleBulkCopy's catch: console.error only.
HandleBulkCopyCatch(s) ==
    /\ calls[s].kind = "bulkCopy"
    /\ Rejected(calls[s])
    /\ calls' = [ calls EXCEPT ![s] = Leftover(calls[s]) ]
    /\ UNCHANGED << mounted, searchLog, sessionGroups, modalVars, started, serverVars, listVars, formVars, searchVars,
                    adminVars, bulkVars >>

RECURSIVE HasId(_, _)
\* list.find(a => a.id === id) found something
HasId(list, id) ==
    IF list = << >> THEN FALSE
    ELSE Head(list).id = id \/ HasId(Tail(list), id)

\* A removal that drops the last entry, whatever its id.
WithoutLast(list, id) == SubSeq(list, 1, Len(list) - 1)

RECURSIVE WithoutAssignee(_, _)
\* list.filter(a => a.id !== id)
WithoutAssignee(list, id) ==
    IF list = << >> THEN << >>
    ELSE IF Head(list).id # id
         THEN << Head(list) >> \o WithoutAssignee(Tail(list), id)
         ELSE WithoutAssignee(Tail(list), id)

\* handleSearchChange: setSearchQuery(query); searchAssignees(query), which
\* returns early only on an empty query.
HandleSearchChange(query) ==
    /\ Grouped
    /\ isOpen
    /\ searchQuery' = query
    /\ IF query = ""
       THEN /\ searchResults' = << >>
            /\ UNCHANGED << calls, started >>
       ELSE /\ HasFree
            /\ Start("searchAssignees", << Req("SEARCH", 0, Some(query)) >>)
            /\ UNCHANGED searchResults
    /\ searchLog' = IF calls' # calls THEN Append(searchLog, Asked(query))
                               ELSE searchLog
    /\ UNCHANGED << mounted, sessionGroups, modalVars, serverVars, listVars, formVars,
                    adminVars, bulkVars >>

\* searchAssignees after its request resolved (the same function in both
\* template components).
SearchAssigneesThen(s) ==
    /\ calls[s].kind = "searchAssignees"
    /\ Fulfilled(calls[s])
    /\ searchResults' = AssigneesOrEmpty(Get(calls[s].reqs[1].data))
    /\ calls' = [ calls EXCEPT ![s] = Idle ]
    /\ searchLog' = Append(searchLog, Handled(Get(calls[s].reqs[1].body)))
    /\ UNCHANGED << mounted, sessionGroups, modalVars, started, serverVars, listVars,
                    formVars, searchQuery, adminVars, bulkVars >>

\* searchAssignees' catch: console.error only.
SearchAssigneesCatch(s) ==
    /\ calls[s].kind = "searchAssignees"
    /\ Rejected(calls[s])
    /\ calls' = [ calls EXCEPT ![s] = Idle ]
    /\ UNCHANGED << mounted, searchLog, sessionGroups, modalVars, started, serverVars, listVars,
                    formVars, searchVars, adminVars, bulkVars >>

\* A selection that appends the assignee whatever the list holds.
AppendAssignee(list, assignee) == Append(list, assignee)

\* The list handleSelectAssignee leaves: the assignee appended unless its id
\* is already there.
SelectAssignee(list, assignee) ==
    IF ~HasId(list, assignee.id) THEN Append(list, assignee) ELSE list

\* handleSelectAssignee (a click on one of the search results)
HandleSelectAssignee(assignee) ==
    /\ Grouped
    /\ isOpen
    /\ assignee \in Range(searchResults)
    /\ selectedAssignees' = SelectAssignee(selectedAssignees, assignee)
    /\ formData' = IF ~HasId(selectedAssignees, assignee.id)
                   THEN [ formData EXCEPT !.assignees =
                            Some(SelectAssignee(selectedAssignees, assignee)) ]
                   ELSE formData
    /\ searchQuery' = ""
    /\ searchResults' = << >>
    /\ UNCHANGED << mounted, searchLog, sessionGroups, modalVars, started, serverVars, calls,
                    listVars, isOpen, editingTemplate, adminVars, bulkVars >>

\* handleRemoveAssignee (the x of a selected assignee)
HandleRemoveAssignee(assigneeId) ==
    /\ Grouped
    /\ isOpen
    /\ HasId(selectedAssignees, assigneeId)
    /\ selectedAssignees' = WithoutAssignee(selectedAssignees, assigneeId)
    /\ formData' = [ formData EXCEPT !.assignees =
                       Some(WithoutAssignee(selectedAssignees, assigneeId)) ]
    /\ UNCHANGED << mounted, searchLog, sessionGroups, modalVars, started, serverVars, calls,
                    listVars, isOpen, editingTemplate, searchVars, adminVars,
                    bulkVars >>

\* ------------------------------------------- TaskManager/TaskTemplate.js
Flat == mounted = "TaskManager/TaskTemplate"

\* fetchTemplates after axios.get resolved: setTemplates(response.data).
FlatFetchTemplatesThen(s) ==
    /\ Flat
    /\ calls[s].kind = "fetch"
    /\ Fulfilled(calls[s])
    /\ templates' = SetTemplates(Get(calls[s].reqs[1].data))
    /\ calls' = [ calls EXCEPT ![s] = Idle ]
    /\ UNCHANGED << mounted, searchLog, sessionGroups, modalVars, started, serverVars,
                    expandedGroups, formVars, searchVars, adminVars, bulkVars >>

\* The Create Task Template button: setIsOpen(true).
FlatOpen ==
    /\ Flat
    /\ ~isOpen
    /\ isOpen' = TRUE
    /\ UNCHANGED << mounted, searchLog, sessionGroups, modalVars, started, serverVars,
                    calls, listVars, editingTemplate, formData,
                    selectedAssignees, searchVars, adminVars, bulkVars >>

\* The modal's close and Cancel buttons: setIsOpen(false).
FlatClose ==
    /\ Flat
    /\ isOpen
    /\ isOpen' = FALSE
    /\ UNCHANGED << mounted, searchLog, sessionGroups, modalVars, started, serverVars,
                    calls, listVars, editingTemplate, formData,
                    selectedAssignees, searchVars, adminVars, bulkVars >>

\* handleSubmit, up to its request.
FlatHandleSubmit ==
    /\ Flat
    /\ isOpen
    /\ HasFree
    /\ Start("flatSubmit", << Req("POST", 0, Some(formData)) >>)
    /\ UNCHANGED << mounted, searchLog, sessionGroups, modalVars, serverVars, listVars,
                    formVars, searchVars, adminVars, bulkVars >>

\* handleSubmit after its request resolved: setIsOpen(false);
\* fetchTemplates(); setFormData(defaults).
FlatHandleSubmitThen(s) ==
    /\ calls[s].kind = "flatSubmit"
    /\ Fulfilled(calls[s])
    /\ isOpen' = FALSE
    /\ calls' = [ calls EXCEPT ![s] = FetchCall(calls[s].by, calls[s].closure) ]
    /\ formData' = DefaultForm
    /\ UNCHANGED << mounted, searchLog, sessionGroups, modalVars, started, serverVars,
                    listVars, editingTemplate, selectedAssignees, searchVars,
                    adminVars, bulkVars >>

\* handleSubmit's catch: console.error only.
FlatHandleSubmitCatch(s) ==
    /\ calls[s].kind = "flatSubmit"
    /\ Rejected(calls[s])
    /\ calls' = [ calls EXCEPT ![s] = Leftover(calls[s]) ]
    /\ UNCHANGED << mounted, searchLog, sessionGroups, modalVars, started, serverVars,
                    listVars, formVars, searchVars, adminVars, bulkVars >>

\* handleToggleActive(template._id, template.is_active), up to its request;
\* its continuation and its catch are those of the grouped component.
FlatHandleToggleActive(template) ==
    /\ Flat
    /\ ~isOpen
    /\ HasFree
    /\ Start("toggleActive",
         << Req("PUT", template._id,
                Some(ToggledRecord(FindTemplate(templates, template._id),
                                   template.is_active))) >>)
    /\ UNCHANGED << mounted, searchLog, sessionGroups, modalVars, serverVars, listVars,
                    formVars, searchVars, adminVars, bulkVars >>

\* The search box's onChange: setSearchQuery(value), and searchAssignees(value)
\* from two characters on.
FlatSearchChange(value) ==
    /\ Flat
    /\ isOpen
    /\ searchQuery' = value
    /\ IF Len(value) >= 2
       THEN /\ HasFree
            /\ Start("searchAssignees", << Req("SEARCH", 0, Some(value)) >>)
            /\ UNCHANGED searchResults
       ELSE /\ searchResults' = << >>
            /\ UNCHANGED << calls, started >>
    /\ searchLog' = IF calls' # calls THEN Append(searchLog, Asked(value))
                               ELSE searchLog
    /\ UNCHANGED << mounted, sessionGroups, modalVars, serverVars, listVars,
                    formVars, adminVars, bulkVars >>

\* handleSelectAssignee
FlatHandleSelectAssignee(assignee) ==
    /\ Flat
    /\ isOpen
    /\ assignee \in Range(searchResults)
    /\ formData' = IF ~HasId(Get(formData.assignees), assignee.id)
                   THEN [ formData EXCEPT !.assignees =
                            Some(Append(Get(formData.assignees), assignee)) ]
                   ELSE formData
    /\ searchQuery' = ""
    /\ searchResults' = << >>
    /\ UNCHANGED << mounted, searchLog, sessionGroups, modalVars, started, serverVars,
                    calls, listVars, isOpen, editingTemplate,
                    selectedAssignees, adminVars, bulkVars >>

\* handleRemoveAssignee
FlatHandleRemoveAssignee(assigneeId) ==
    /\ Flat
    /\ isOpen
    /\ HasId(Get(formData.assignees), assigneeId)
    /\ formData' = [ formData EXCEPT !.assignees =
                       Some(WithoutAssignee(Get(formData.assignees), assigneeId)) ]
    /\ UNCHANGED << mounted, searchLog, sessionGroups, modalVars, started, serverVars,
                    calls, listVars, isOpen, editingTemplate,
                    selectedAssignees, searchVars, adminVars, bulkVars >>

\* ------------------------------------------------- TaskModal (part_002)
Modal == mounted = "TaskModal"

\* Everything of the template components but formData and authSession.
templateVars == << listVars, isOpen, editingTemplate, selectedAssignees,
                   searchVars, isAdmin, toasts, bulkVars >>

\* The entry handleAssigneeSelect builds of a search result.
Picked(assignee) ==
    [ id |-> assignee.id, name |-> assignee.name, type |-> assignee.type,
      client_id |-> IF assignee.type = "client" THEN assignee.id ELSE "null",
      employee_id |-> IF assignee.type = "employee" THEN assignee.id
                      ELSE "null" ]

\* The tasks the parent may hand to the modal.
TaskOf(id, status, assignees) ==
    [ _id |-> id, title |-> "t", description |-> "d", priority |-> "high",
      status |-> status, due_date |-> "2026-11-30", assignees |-> assignees,
      visible_to |-> None, estimated_hours |-> 2, actual_hours |-> 1 ]
Tasks ==
    << TaskOf(1, "pending", Some(<< Acme, Eve >>)),
       TaskOf(2, "complete", Some(<< Picked(Bolt) >>)) >>

\* formData of the modal: the useState default with the given title, status,
\* assignees and visible_to.
ModalForm(title, status, assignees, visible) ==
    [ title |-> title, description |-> "", priority |-> "medium",
      status |-> status, due_date |-> "", assignees |-> assignees,
      visible_to |-> visible, estimated_hours |-> 0, actual_hours |-> 0 ]
\* value || fallback, of a string
StrOr(value, fallback) == IF value = "" THEN fallback ELSE value
\* A reset that shows the form to no group.
ResetToNoGroup(groups) == ModalForm("", "pending", << >>, << >>)
\* The form the reset-on-close effect sets.
ResetModalForm(groups) == ModalForm("", "pending", << >>, groups)
\* The form the task effect sets.
TaskForm(t, groups) ==
    [ ModalForm(t.title, StrOr(t.status, "pending"),
                AssigneesOrEmpty(t.assignees),
                IF IsSome(t.visible_to) THEN Get(t.visible_to) ELSE groups)
        EXCEPT !.description = t.description,
               !.priority = StrOr(t.priority, "medium"),
               !.due_date = t.due_date,
               !.estimated_hours = t.estimated_hours,
               !.actual_hours = t.actual_hours ]

\* decodedToken['cognito:groups'] || []
GroupList == IF "ADMIN" \in sessionGroups THEN << "ADMIN" >> ELSE << >>

\* fetchUserGroups after fetchAuthSession: setUserGroups(groups), visible_to
\* of a new task, and the effects that depend on userGroups (the task effect,
\* then the reset-on-close effect); console.error when the session could not
\* be read.
FetchUserGroupsThen(sessionRead) ==
    /\ Modal
    /\ authSession = "pending"
    /\ authSession' = "done"
    /\ IF sessionRead
       THEN /\ userGroups' = GroupList
            /\ formData' =
                 IF ~show THEN ResetModalForm(GroupList)
                 ELSE IF IsSome(task) THEN TaskForm(Get(task), GroupList)
                 ELSE IF ~editMode
                      THEN [ formData EXCEPT !.visible_to = GroupList ]
                      ELSE formData
            /\ assigneeOptions' = IF ~show THEN << >> ELSE assigneeOptions
       ELSE UNCHANGED << userGroups, formData, assigneeOptions >>
    /\ UNCHANGED << mounted, searchLog, sessionGroups, started, serverVars, calls,
                    templateVars, submitted, show, task, editMode,
                    isCompleting, completionData >>

\* The parent shows the modal with a task (or none); the task effect loads
\* a task that is another object than the one before.
ParentShow(t, fresh) ==
    /\ Modal
    /\ ~show
    /\ show' = TRUE
    /\ task' = t
    /\ formData' = IF IsSome(t) /\ (t # task \/ fresh)
                   THEN TaskForm(Get(t), userGroups)
                   ELSE formData
    /\ UNCHANGED << mounted, searchLog, sessionGroups, started, serverVars, calls,
                    templateVars, submitted, authSession, editMode, userGroups,
                    assigneeOptions, isCompleting, completionData >>

\* What onClose leaves: the parent hides the modal, and the reset-on-close
\* effect runs.
Closed ==
    /\ show' = FALSE
    /\ formData' = IF show THEN ResetModalForm(userGroups) ELSE formData
    /\ assigneeOptions' = IF show THEN << >> ELSE assigneeOptions

\* handleClose (the x and the Cancel button)
HandleClose ==
    /\ Modal
    /\ show
    /\ Closed
    /\ UNCHANGED << mounted, searchLog, sessionGroups, started, serverVars, calls,
                    templateVars, submitted, authSession, task, editMode, userGroups,
                    isCompleting, completionData >>

\* The values typed into the modal's title input.
ModalTitles == { "", "u" }

\* handleChange: setFormData(prev => ({...prev, [name]: value}))
ModalHandleChange(name, value) ==
    /\ Modal
    /\ show
    /\ ~isCompleting
    /\ formData[name] # value
    /\ formData' = [ formData EXCEPT ![name] = value ]
    /\ UNCHANGED << mounted, searchLog, sessionGroups, started, serverVars, calls,
                    templateVars, submitted, authSession, show, task, editMode,
                    userGroups, assigneeOptions, isCompleting, completionData >>

\* {...formData, _id: editMode ? task?._id : undefined}
SubmitData(form, t, edit) ==
    [ f \in DOMAIN form \cup { "_id" } |->
        IF f = "_id" THEN (IF edit /\ IsSome(t) THEN Some(Get(t)._id) ELSE None)
        ELSE form[f] ]

\* handleSubmit of the modal, up to its await: onSubmit(submitData), the
\* parent's callback, which resolves or rejects.
ModalHandleSubmit ==
    /\ Modal
    /\ show
    /\ ~isCompleting
    /\ HasFree
    /\ StartWith("modalSubmit", EmptyMap,
                 << Req("ONSUBMIT", 0, Some(SubmitData(formData, task, editMode))) >>)
    /\ submitted' = Append(submitted, SubmitData(formData, task, editMode))
    /\ UNCHANGED << mounted, searchLog, sessionGroups, serverVars, templateVars,
                    authSession, formData, show, task, editMode, userGroups,
                    assigneeOptions, isCompleting, completionData >>

\* handleSubmit after onSubmit resolved: handleClose().
ModalHandleSubmitThen(s) ==
    /\ calls[s].kind = "modalSubmit"
    /\ Fulfilled(calls[s])
    /\ Closed
    /\ calls' = [ calls EXCEPT ![s] = Idle ]
    /\ UNCHANGED << mounted, searchLog, sessionGroups, started, serverVars,
                    templateVars, submitted, authSession, task, editMode,
                    userGroups, isCompleting, completionData >>

\* handleSubmit's catch: console.error only.
ModalHandleSubmitCatch(s) ==
    /\ calls[s].kind = "modalSubmit"
    /\ Rejected(calls[s])
    /\ calls' = [ calls EXCEPT ![s] = Idle ]
    /\ UNCHANGED << mounted, searchLog, sessionGroups, started, serverVars,
                    templateVars, authSession, formData, modalVars >>

RECURSIVE NewOptions(_, _)
\* assignees.filter(option => !existing.some(e => e.id === option.id))
NewOptions(assignees, existing) ==
    IF assignees = << >> THEN << >>
    ELSE IF ~HasId(existing, Head(assignees).id)
         THEN << Head(assignees) >> \o NewOptions(Tail(assignees), existing)
         ELSE NewOptions(Tail(assignees), existing)

\* handleAssigneeSearch, up to its request.
HandleAssigneeSearch(query) ==
    /\ Modal
    /\ show
    /\ ~isCompleting
    /\ assigneeOptions' = << >>
    /\ IF Len(query) >= 2
       THEN /\ HasFree
            /\ StartWith("assigneeSearch", formData.assignees,
                         << Req("SEARCH", 0, Some(query)) >>)
       ELSE UNCHANGED << calls, started >>
    /\ searchLog' = IF calls' # calls THEN Append(searchLog, Asked(query))
                               ELSE searchLog
    /\ UNCHANGED << mounted, sessionGroups, serverVars, templateVars,
                    submitted, authSession, formData, show, task, editMode,
                    userGroups, isCompleting, completionData >>

\* handleAssigneeSearch after its request resolved: the answer's assignees
\* that the formData of its closure does not hold.
HandleAssigneeSearchThen(s) ==
    /\ calls[s].kind = "assigneeSearch"
    /\ Fulfilled(calls[s])
    /\ assigneeOptions' =
         IF IsSome(Get(calls[s].reqs[1].data))
         THEN NewOptions(Get(Get(calls[s].reqs[1].data)), calls[s].closure)
         ELSE assigneeOptions
    /\ calls' = [ calls EXCEPT ![s] = Idle ]
    /\ searchLog' = Append(searchLog, Handled(Get(calls[s].reqs[1].body)))
    /\ UNCHANGED << mounted, sessionGroups, started, serverVars, templateVars, submitted,
                    authSession, formData, show, task, editMode, userGroups,
                    isCompleting, completionData >>

\* handleAssigneeSearch's catch: console.error; setAssigneeOptions([]).
HandleAssigneeSearchCatch(s) ==
    /\ calls[s].kind = "assigneeSearch"
    /\ Rejected(calls[s])
    /\ assigneeOptions' = << >>
    /\ calls' = [ calls EXCEPT ![s] = Idle ]
    /\ UNCHANGED << mounted, searchLog, sessionGroups, started, serverVars, templateVars, submitted,
                    authSession, formData, show, task, editMode, userGroups,
                    isCompleting, completionData >>

\* A selection that appends whatever the list holds.
AlwaysAppended(prev, assignee) == Append(prev, Picked(assignee))

\* The list handleAssigneeSelect leaves.
AssigneeSelected(prev, assignee) ==
    Append(WithoutAssignee(prev, assignee.id), Picked(assignee))

\* handleAssigneeSelect (a click on one of the options)
HandleAssigneeSelect(assignee) ==
    /\ Modal
    /\ show
    /\ ~isCompleting
    /\ assignee \in Range(assigneeOptions)
    /\ formData' = [ formData EXCEPT !.assignees =
                       AssigneeSelected(formData.assignees, assignee) ]
    /\ assigneeOptions' = << >>
    /\ UNCHANGED << mounted, searchLog, sessionGroups, started, serverVars, calls,
                    templateVars, submitted, authSession, show, task, editMode,
                    userGroups, isCompleting, completionData >>

\* handleRemoveAssignee of the modal
ModalHandleRemoveAssignee(assigneeId) ==
    /\ Modal
    /\ show
    /\ ~isCompleting
    /\ HasId(formData.assignees, assigneeId)
    /\ formData' = [ formData EXCEPT !.assignees =
                       WithoutAssignee(formData.assignees, assigneeId) ]
    /\ UNCHANGED << mounted, searchLog, sessionGroups, started, serverVars, calls,
                    templateVars, submitted, authSession, show, task, editMode,
                    userGroups, assigneeOptions, isCompleting,
                    completionData >>

\* The Mark Complete button (disabled on a complete task)
MarkComplete ==
    /\ Modal
    /\ show
    /\ ~isCompleting
    /\ ~(IsSome(task) /\ Get(task).status = "complete")
    /\ isCompleting' = TRUE
    /\ UNCHANGED << mounted, searchLog, sessionGroups, started, serverVars, calls,
                    templateVars, submitted, authSession, formData, show, task, editMode,
                    userGroups, assigneeOptions, completionData >>

\* The completion form's Cancel button
CancelCompleting ==
    /\ Modal
    /\ show
    /\ isCompleting
    /\ isCompleting' = FALSE
    /\ UNCHANGED << mounted, searchLog, sessionGroups, started, serverVars, calls,
                    templateVars, submitted, authSession, formData, show, task, editMode,
                    userGroups, assigneeOptions, completionData >>

\* The completion form's inputs (onChange); hours counts 1/HoursDen hours.
SetCompletionData(field, value) ==
    /\ Modal
    /\ show
    /\ isCompleting
    /\ completionData' = [ completionData EXCEPT ![field] = value ]
    /\ UNCHANGED << mounted, searchLog, sessionGroups, started, serverVars, calls,
                    templateVars, submitted, authSession, formData, show, task, editMode,
                    userGroups, assigneeOptions, isCompleting >>

\* Math.floor and Math.round of num/den, num >= 0
Floor(num, den) == num \div den
Round(num, den) == (2 * num + den) \div (2 * den)

\* task.assignees?.find(a => a.type === 'client')?.client_id || ''
ClientId(t) ==
    LET client == ClientAssignee(t)
    IN IF IsSome(client) /\ "client_id" \in DOMAIN Get(client)
       THEN Get(client).client_id
       ELSE ""

\* An entry whose minutes are the minutes input alone.
EntryOfWholeHours(t, data) ==
    [ client_id |-> ClientId(t), hours |-> Floor(data.hours, HoursDen),
      minutes |-> data.minutes, type |-> "task", item |-> t._id,
      category |-> "Task Work" ]

\* The timesheet entry handleComplete posts (its date is the day's).
TimesheetEntry(t, data) ==
    LET hours == Floor(data.hours, HoursDen)
        minutesFromHours ==
            Round((data.hours - hours * HoursDen) * 60, HoursDen)
        totalMinutes == minutesFromHours + data.minutes
    IN [ client_id |-> ClientId(t), hours |-> hours, minutes |-> totalMinutes,
         type |-> "task", item |-> t._id, category |-> "Task Work" ]

\* handleComplete, up to its first request (without a task it throws on
\* task._id, and its catch logs).
HandleComplete ==
    /\ Modal
    /\ show
    /\ isCompleting
    /\ ~(completionData.hours = 0 /\ completionData.minutes = 0)
    /\ IsSome(task)
    /\ HasFree
    /\ StartWith("complete",
                 [ task |-> Get(task), completionData |-> completionData ],
                 << Req("POST_ENTRY", 0,
                        Some(TimesheetEntry(Get(task), completionData))) >>)
    /\ UNCHANGED << mounted, searchLog, sessionGroups, serverVars, templateVars,
                    authSession, formData, modalVars >>

\* A PUT body that leaves the status as it is.
NotCompleted(t, notes) ==
    [ f \in DOMAIN t \cup { "completion_notes" } |->
        IF f = "completion_notes" THEN notes ELSE t[f] ]

\* {...task, status: 'complete', completion_notes: completionData.notes}
Completed(t, notes) ==
    [ f \in DOMAIN t \cup { "completion_notes" } |->
        IF f = "completion_notes" THEN notes
        ELSE IF f = "status" THEN "complete"
        ELSE t[f] ]

\* handleComplete after its POST resolved: the PUT of the task.
HandleCompletePosted(s) ==
    /\ calls[s].kind = "complete"
    /\ Len(calls[s].reqs) = 1
    /\ Fulfilled(calls[s])
    /\ LET c == calls[s].closure
       IN calls' = [ calls EXCEPT ![s].reqs =
                       Append(@, Req("PUT_TASK", c.task._id,
                                     Some(Completed(c.task,
                                                    c.completionData.notes)))) ]
    /\ UNCHANGED << mounted, searchLog, sessionGroups, started, serverVars, templateVars,
                    authSession, formData, modalVars >>

\* handleComplete after its PUT resolved: onSubmit(...); onClose().
HandleCompleteThen(s) ==
    /\ calls[s].kind = "complete"
    /\ Len(calls[s].reqs) = 2
    /\ Fulfilled(calls[s])
    /\ submitted' =
         Append(submitted, [ calls[s].closure.task EXCEPT !.status = "complete" ])
    /\ Closed
    /\ calls' = [ calls EXCEPT ![s] = Idle ]
    /\ UNCHANGED << mounted, searchLog, sessionGroups, started, serverVars, templateVars,
                    authSession, task, editMode, userGroups, isCompleting,
                    completionData >>

\* handleComplete's catch: console.error only.
HandleCompleteCatch(s) ==
    /\ calls[s].kind = "complete"
    /\ Rejected(calls[s])
    /\ calls' = [ calls EXCEPT ![s] = Idle ]
    /\ UNCHANGED << mounted, searchLog, sessionGroups, started, serverVars, templateVars,
                    authSession, formData, modalVars >>

\* ------------------------------------------------------- specifications
\* The useState defaults of what no specification below starts otherwise.
Defaults ==
    /\ isOpen = FALSE
    /\ editingTemplate = None
    /\ selectedAssignees = << >>
    /\ searchQuery = ""
    /\ searchResults = << >>
    /\ toasts = {}
    /\ isBulkCopyModalOpen = FALSE
    /\ selectedClientTemplates = None
    /\ newClientSearchQuery = ""
    /\ newClientSearchResults = << >>
    /\ timesheet = << >>
    /\ serverTasks = [ i \in 1..Len(Tasks) |-> Tasks[i] ]
    /\ otherEdits = {}
    /\ show = FALSE
    /\ task = None
    /\ userGroups = << >>
    /\ assigneeOptions = << >>
    /\ isCompleting = FALSE
    /\ completionData = [ hours |-> 0, minutes |-> 0, notes |-> "" ]
    /\ submitted = << >>
    /\ searchLog = << >>

\* A component right after its first render and its mount effects: the
\* template components have called fetchTemplates (the grouped one
\* checkAdminStatus too), the modal fetchUserGroups.
Mounted(component) ==
    /\ mounted = component
    /\ calls = [ s \in Slots |->
                   IF s = 1 /\ component # "TaskModal"
                   THEN FetchCall("mount", EmptyMap) ELSE Idle ]
    /\ started = 0
    /\ authSession =
         IF component = "TaskManager/TaskTemplate" THEN "done" ELSE "pending"
    /\ templates = << >>
    /\ expandedGroups = EmptyMap
    /\ isAdmin = FALSE
    /\ formData =
         IF component = "TaskModal" THEN ResetModalForm(<< >>) ELSE DefaultForm
    /\ Defaults

\* The user may start another async handler.
Fuel == started < MaxOps

\* --- the grouping as a function of the template list
AssigneeChoices ==
    { None, Some(<< >>), Some(<< Acme >>), Some(<< Eve, Acme >>),
      Some(<< Bolt, Acme >>), Some(<< Eve >>) }
TemplateChoices ==
    { Template(id, "t", a, TRUE) : id \in 1..MaxLen, a \in AssigneeChoices }
\* The lists of at most MaxLen templates with distinct _ids.
TemplateLists ==
    UNION { { ts \in [ 1..n -> TemplateChoices ] :
                \A i, j \in 1..n : i # j => ts[i]._id # ts[j]._id } :
            n \in 0..MaxLen }

\* The grouped component holding a fetched list, every group collapsed.
InitGroup ==
    /\ mounted = "TaskTemplate"
    /\ sessionGroups = { "ADMIN" }
    /\ templates \in TemplateLists
    /\ server = templates
    /\ nextId = MaxLen + 1
    /\ calls = [ s \in Slots |-> Idle ]
    /\ started = 0
    /\ authSession = "done"
    /\ editMode = FALSE
    /\ isAdmin = TRUE
    /\ expandedGroups = NewGroups(templates, EmptyMap)
    /\ formData = DefaultForm
    /\ Defaults

NextGroup ==
    \E k \in DOMAIN GroupedTemplates(templates) : ToggleGroup(k)

SpecGroup == InitGroup /\ [][NextGroup]_vars

\* --- the expand state across fetches
InitExpand ==
    /\ sessionGroups = { "ADMIN" }
    /\ server = << Template(1, "a", Some(<< Acme >>), TRUE),
                   Template(2, "b", None, FALSE) >>
    /\ nextId = Len(server) + 1
    /\ editMode = FALSE
    /\ Mounted("TaskTemplate")

NextExpand ==
    \/ \E s \in Slots : \E i \in 1..MaxId : ServerStep(s, i)
    \/ \E s \in Slots : FetchTemplatesThen(s)
    \/ \E s \in Slots : FetchTemplatesCatch(s)
    \/ \E sessionRead \in BOOLEAN : CheckAdminStatusDone(sessionRead)
    \/ \E k \in DOMAIN GroupedTemplates(templates) : ToggleGroup(k)
    \/ OpenCreate
    \/ CloseForm
    \/ Fuel /\ HandleSubmit
    \/ \E s \in Slots : HandleSubmitThen(s)
    \/ \E s \in Slots : HandleSubmitCatch(s)
    \/ Fuel /\ \E t \in Range(templates) : \E confirmed \in BOOLEAN :
         HandleDelete(t, confirmed)
    \/ \E s \in Slots : MutationThen(s)
    \/ \E s \in Slots : MutationCatch(s)

SpecExpand == InitExpand /\ [][NextExpand]_vars

\* --- the template list against the server's
InitSync ==
    /\ sessionGroups = { "ADMIN" }
    /\ server = << Template(1, "a", Some(<< Acme >>), TRUE),
                   Template(2, "b", Some(<< Eve, Acme >>), TRUE) >>
    /\ nextId = Len(server) + 1
    /\ editMode = FALSE
    /\ \E c \in { "TaskTemplate", "TaskManager/TaskTemplate" } : Mounted(c)

NextSync ==
    \/ \E s \in Slots : \E i \in 1..MaxId : ServerStep(s, i)
    \/ \E s \in Slots : FetchTemplatesThen(s)
    \/ \E s \in Slots : FetchTemplatesCatch(s)
    \/ \E sessionRead \in BOOLEAN : CheckAdminStatusDone(sessionRead)
    \/ \E k \in DOMAIN GroupedTemplates(templates) : ToggleGroup(k)
    \/ OpenCreate
    \/ CloseForm
    \/ \E t \in Range(templates) : HandleEdit(t)
    \/ Fuel /\ HandleSubmit
    \/ \E s \in Slots : HandleSubmitThen(s)
    \/ \E s \in Slots : HandleSubmitCatch(s)
    \/ Fuel /\ \E t \in Range(templates) : HandleToggleActive(t)
    \/ Fuel /\ \E t \in Range(templates) : HandleDuplicate(t)
    \/ Fuel /\ \E t \in Range(templates) : \E confirmed \in BOOLEAN :
         HandleDelete(t, confirmed)
    \/ Fuel /\ \E k \in DOMAIN GroupedTemplates(templates) :
         \E confirmed \in BOOLEAN : HandleDeleteGroup(k, confirmed)
    \/ \E s \in Slots : MutationThen(s)
    \/ \E s \in Slots : MutationCatch(s)
    \/ \E k \in DOMAIN GroupedTemplates(templates) : OpenBulkCopy(k)
    \/ CloseBulkCopy
    \/ Fuel /\ BulkSearchChange("ab")
    \/ \E s \in Slots : SearchClientsThen(s)
    \/ \E s \in Slots : SearchClientsCatch(s)
    \/ Fuel /\ \E c \in Clients : HandleBulkCopy(c)
    \/ \E s \in Slots : HandleBulkCopyThen(s)
    \/ \E s \in Slots : HandleBulkCopyCatch(s)
    \/ \E s \in Slots : FlatFetchTemplatesThen(s)
    \/ FlatOpen
    \/ FlatClose
    \/ Fuel /\ FlatHandleSubmit
    \/ \E s \in Slots : FlatHandleSubmitThen(s)
    \/ \E s \in Slots : FlatHandleSubmitCatch(s)
    \/ Fuel /\ \E t \in Range(templates) : FlatHandleToggleActive(t)

SpecSync == InitSync /\ [][NextSync]_vars

\* --- searching and selecting assignees, in the three components
InitAssign ==
    /\ sessionGroups = { "ADMIN" }
    /\ server = << Template(1, "a", Some(<< Acme >>), TRUE),
                   Template(2, "b", None, FALSE) >>
    /\ nextId = Len(server) + 1
    /\ \E c \in { "TaskTemplate", "TaskManager/TaskTemplate", "TaskModal" } :
         Mounted(c)
    /\ editMode \in IF Modal THEN BOOLEAN ELSE { FALSE }

NextAssign ==
    \/ \E s \in Slots : \E i \in 1..MaxId : ServerStep(s, i)
    \/ \E s \in Slots : FetchTemplatesThen(s)
    \/ \E s \in Slots : FetchTemplatesCatch(s)
    \/ \E sessionRead \in BOOLEAN : CheckAdminStatusDone(sessionRead)
    \/ OpenCreate
    \/ CloseForm
    \/ \E q \in Queries : Fuel /\ HandleSearchChange(q)
    \/ \E s \in Slots : SearchAssigneesThen(s)
    \/ \E s \in Slots : SearchAssigneesCatch(s)
    \/ \E a \in Directory : HandleSelectAssignee(a)
    \/ \E a \in Directory : HandleRemoveAssignee(a.id)
    \/ \E k \in DOMAIN GroupedTemplates(templates) : OpenBulkCopy(k)
    \/ CloseBulkCopy
    \/ \E q \in Queries : Fuel /\ BulkSearchChange(q)
    \/ \E s \in Slots : SearchClientsThen(s)
    \/ \E s \in Slots : SearchClientsCatch(s)
    \/ \E s \in Slots : FlatFetchTemplatesThen(s)
    \/ FlatOpen
    \/ FlatClose
    \/ \E q \in Queries : Fuel /\ FlatSearchChange(q)
    \/ \E a \in Directory : FlatHandleSelectAssignee(a)
    \/ \E a \in Directory : FlatHandleRemoveAssignee(a.id)
    \/ \E sessionRead \in BOOLEAN : FetchUserGroupsThen(sessionRead)
    \/ \E i \in 1..Len(Tasks) : \E fresh \in BOOLEAN :
         ParentShow(Some(serverTasks[i]), fresh)
    \/ ParentShow(None, FALSE)
    \/ HandleClose
    \/ \E q \in Queries : Fuel /\ HandleAssigneeSearch(q)
    \/ \E s \in Slots : HandleAssigneeSearchThen(s)
    \/ \E s \in Slots : HandleAssigneeSearchCatch(s)
    \/ \E a \in Directory : HandleAssigneeSelect(a)
    \/ \E a \in Directory : ModalHandleRemoveAssignee(a.id)

SpecAssign == InitAssign /\ [][NextAssign]_vars

\* --- completing a task in the modal
\* The hours typed in: the halves of an hour up to the largest (the input's
\* step), and the smallest positive value (the step is not enforced: the
\* completion inputs are in no form, and the button is a type="button").
HourInputs == { (n * HoursDen) \div 2 : n \in 0..MaxHoursNum } \cup { 1 }
MinuteInputs == { 0, 1, MaxMinutes }

InitComplete ==
    /\ sessionGroups = { "ADMIN" }
    /\ server = << >>
    /\ nextId = 1
    /\ editMode = TRUE
    /\ Mounted("TaskModal")

NextComplete ==
    \/ \E s \in Slots : \E i \in 1..MaxId : ServerStep(s, i)
    \/ \E sessionRead \in BOOLEAN : FetchUserGroupsThen(sessionRead)
    \/ \E i \in 1..Len(Tasks) : \E fresh \in BOOLEAN :
         ParentShow(Some(serverTasks[i]), fresh)
    \/ HandleClose
    \/ MarkComplete
    \/ CancelCompleting
    \/ \E h \in HourInputs : SetCompletionData("hours", h)
    \/ \E m \in MinuteInputs : SetCompletionData("minutes", m)
    \/ SetCompletionData("notes", "done")
    \/ started < MaxCompletions /\ HandleComplete
    \/ \E s \in Slots : HandleCompletePosted(s)
    \/ \E s \in Slots : HandleCompleteThen(s)
    \/ \E s \in Slots : HandleCompleteCatch(s)

SpecComplete == InitComplete /\ [][NextComplete]_vars

\* --- toggling is_active while another client edits
InitToggle ==
    /\ sessionGroups = { "ADMIN" }
    /\ server = << Template(1, "a", Some(<< Acme >>), TRUE),
                   Template(2, "b", Some(<< Eve >>), FALSE) >>
    /\ nextId = Len(server) + 1
    /\ editMode = FALSE
    /\ \E c \in { "TaskTemplate", "TaskManager/TaskTemplate" } : Mounted(c)

NextToggle ==
    \/ \E s \in Slots : \E i \in 1..MaxId : ServerStep(s, i)
    \/ \E id \in 1..MaxId : \E title \in OtherTitles : OtherClientEdit(id, title)
    \/ \E s \in Slots : FetchTemplatesThen(s)
    \/ \E s \in Slots : FetchTemplatesCatch(s)
    \/ \E sessionRead \in BOOLEAN : CheckAdminStatusDone(sessionRead)
    \/ \E k \in DOMAIN GroupedTemplates(templates) : ToggleGroup(k)
    \/ Fuel /\ \E t \in Range(templates) : HandleToggleActive(t)
    \/ \E s \in Slots : MutationThen(s)
    \/ \E s \in Slots : MutationCatch(s)
    \/ \E s \in Slots : FlatFetchTemplatesThen(s)
    \/ Fuel /\ \E t \in Range(templates) : FlatHandleToggleActive(t)

SpecToggle == InitToggle /\ [][NextToggle]_vars

\* --- copying a client's templates to another client
InitBulk ==
    /\ sessionGroups = { "ADMIN" }
    /\ server = << Template(1, "a", Some(<< Acme >>), TRUE),
                   Template(2, "b", Some(<< Acme, Eve, Bolt >>), FALSE) >>
    /\ nextId = Len(server) + 1
    /\ editMode = FALSE
    /\ Mounted("TaskTemplate")

NextBulk ==
    \/ \E s \in Slots : \E i \in 1..MaxId : ServerStep(s, i)
    \/ \E s \in Slots : FetchTemplatesThen(s)
    \/ \E s \in Slots : FetchTemplatesCatch(s)
    \/ \E sessionRead \in BOOLEAN : CheckAdminStatusDone(sessionRead)
    \/ \E k \in DOMAIN GroupedTemplates(templates) : OpenBulkCopy(k)
    \/ CloseBulkCopy
    \/ \E q \in Queries : Fuel /\ BulkSearchChange(q)
    \/ \E s \in Slots : SearchClientsThen(s)
    \/ \E s \in Slots : SearchClientsCatch(s)
    \/ Fuel /\ \E c \in Clients : HandleBulkCopy(c)
    \/ \E s \in Slots : HandleBulkCopyThen(s)
    \/ \E s \in Slots : HandleBulkCopyCatch(s)

SpecBulk == InitBulk /\ [][NextBulk]_vars

\* --- template mutations the server refuses
InitPermit ==
    /\ sessionGroups \in { { "ADMIN" }, {} }
    /\ server = << Template(1, "a", Some(<< Acme >>), TRUE) >>
    /\ nextId = Len(server) + 1
    /\ editMode = FALSE
    /\ Mounted("TaskTemplate")

NextPermit ==
    \/ \E s \in Slots : \E i \in 1..MaxId : ServerStep(s, i)
    \/ RevokeAdmin
    \/ \E s \in Slots : FetchTemplatesThen(s)
    \/ \E s \in Slots : FetchTemplatesCatch(s)
    \/ \E sessionRead \in BOOLEAN : CheckAdminStatusDone(sessionRead)
    \/ \E k \in DOMAIN GroupedTemplates(templates) : ToggleGroup(k)
    \/ OpenCreate
    \/ CloseForm
    \/ \E t \in Range(templates) : HandleEdit(t)
    \/ Fuel /\ HandleSubmit
    \/ \E s \in Slots : HandleSubmitThen(s)
    \/ \E s \in Slots : HandleSubmitCatch(s)
    \/ Fuel /\ \E t \in Range(templates) : HandleToggleActive(t)
    \/ Fuel /\ \E t \in Range(templates) : HandleDuplicate(t)
    \/ Fuel /\ \E t \in Range(templates) : \E confirmed \in BOOLEAN :
         HandleDelete(t, confirmed)
    \/ Fuel /\ \E k \in DOMAIN GroupedTemplates(templates) :
         \E confirmed \in BOOLEAN : HandleDeleteGroup(k, confirmed)
    \/ \E s \in Slots : MutationThen(s)
    \/ \E s \in Slots : MutationCatch(s)
    \/ \E k \in DOMAIN GroupedTemplates(templates) : OpenBulkCopy(k)
    \/ CloseBulkCopy
    \/ Fuel /\ BulkSearchChange("ab")
    \/ \E s \in Slots : SearchClientsThen(s)
    \/ \E s \in Slots : SearchClientsCatch(s)
    \/ Fuel /\ \E c \in Clients : HandleBulkCopy(c)
    \/ \E s \in Slots : HandleBulkCopyThen(s)
    \/ \E s \in Slots : HandleBulkCopyCatch(s)

SpecPermit == InitPermit /\ [][NextPermit]_vars

\* --- filling in and submitting the template form
InitForm ==
    /\ sessionGroups = { "ADMIN" }
    /\ server = << Template(1, "a", Some(<< Acme >>), TRUE) >>
    /\ nextId = MaxId
    /\ editMode = FALSE
    /\ \E c \in { "TaskTemplate", "TaskManager/TaskTemplate" } : Mounted(c)

NextForm ==
    \/ \E s \in Slots : \E i \in 1..MaxId : ServerStep(s, i)
    \/ \E s \in Slots : FetchTemplatesThen(s)
    \/ \E s \in Slots : FetchTemplatesCatch(s)
    \/ \E sessionRead \in BOOLEAN : CheckAdminStatusDone(sessionRead)
    \/ \E k \in DOMAIN GroupedTemplates(templates) : ToggleGroup(k)
    \/ OpenCreate
    \/ CloseForm
    \/ \E t \in Range(templates) : HandleEdit(t)
    \/ \E f \in TypedFields : \E v \in FieldValues : HandleFieldChange(f, v)
    \/ Fuel /\ HandleSubmit
    \/ \E s \in Slots : HandleSubmitThen(s)
    \/ \E s \in Slots : HandleSubmitCatch(s)
    \/ \E s \in Slots : FlatFetchTemplatesThen(s)
    \/ FlatOpen
    \/ FlatClose
    \/ Fuel /\ FlatHandleSubmit
    \/ \E s \in Slots : FlatHandleSubmitThen(s)
    \/ \E s \in Slots : FlatHandleSubmitCatch(s)

SpecForm == InitForm /\ [][NextForm]_vars

\* --- editing, submitting and closing in the modal
InitModal ==
    /\ sessionGroups = { "ADMIN" }
    /\ server = << >>
    /\ nextId = 1
    /\ editMode \in BOOLEAN
    /\ Mounted("TaskModal")

NextModal ==
    \/ \E s \in Slots : \E i \in 1..MaxId : ServerStep(s, i)
    \/ \E sessionRead \in BOOLEAN : FetchUserGroupsThen(sessionRead)
    \/ \E i \in 1..Len(Tasks) : \E fresh \in BOOLEAN :
         ParentShow(Some(serverTasks[i]), fresh)
    \/ HandleClose
    \/ \E v \in ModalTitles : ModalHandleChange("title", v)
    \/ started < MaxModalOps /\ HandleAssigneeSearch("ab")
    \/ \E s \in Slots : HandleAssigneeSearchThen(s)
    \/ \E s \in Slots : HandleAssigneeSearchCatch(s)
    \/ \E a \in Directory : HandleAssigneeSelect(a)
    \/ \E a \in Directory : ModalHandleRemoveAssignee(a.id)
    \/ started < MaxModalOps /\ ModalHandleSubmit
    \/ \E s \in Slots : ModalHandleSubmitThen(s)
    \/ \E s \in Slots : ModalHandleSubmitCatch(s)

SpecModal == InitModal /\ [][NextModal]_vars

\* --- deleting templates, one by one and by group
InitDelete ==
    /\ sessionGroups = { "ADMIN" }
    /\ server = << Template(1, "a", Some(<< Acme >>), TRUE),
                   Template(2, "b", Some(<< Eve, Acme >>), TRUE),
                   Template(3, "c", Some(<< Bolt >>), TRUE),
                   Template(4, "d", None, FALSE) >>
    /\ nextId = Len(server) + 1
    /\ editMode = FALSE
    /\ Mounted("TaskTemplate")

NextDelete ==
    \/ \E s \in Slots : \E i \in 1..MaxId : ServerStep(s, i)
    \/ \E s \in Slots : FetchTemplatesThen(s)
    \/ \E s \in Slots : FetchTemplatesCatch(s)
    \/ \E sessionRead \in BOOLEAN : CheckAdminStatusDone(sessionRead)
    \/ \E k \in DOMAIN GroupedTemplates(templates) : ToggleGroup(k)
    \/ started < MaxDeletes /\ \E t \in Range(templates) :
         \E confirmed \in BOOLEAN : HandleDelete(t, confirmed)
    \/ started < MaxDeletes /\ \E k \in DOMAIN GroupedTemplates(templates) :
         \E confirmed \in BOOLEAN : HandleDeleteGroup(k, confirmed)
    \/ \E s \in Slots : MutationThen(s)
    \/ \E s \in Slots : MutationCatch(s)
    \/ \E k \in DOMAIN GroupedTemplates(templates) : OpenBulkCopy(k)
    \/ CloseBulkCopy

SpecDelete == InitDelete /\ [][NextDelete]_vars

\* --- confirming a completion more than once
InitRetry ==
    /\ sessionGroups = { "ADMIN" }
    /\ server = << >>
    /\ nextId = 1
    /\ editMode = TRUE
    /\ Mounted("TaskModal")

NextRetry ==
    \/ \E s \in Slots : \E i \in 1..MaxId : ServerStep(s, i)
    \/ \E sessionRead \in BOOLEAN : FetchUserGroupsThen(sessionRead)
    \/ \E i \in 1..Len(Tasks) : \E fresh \in BOOLEAN :
         ParentShow(Some(serverTasks[i]), fresh)
    \/ HandleClose
    \/ MarkComplete
    \/ CancelCompleting
    \/ SetCompletionData("hours", HoursDen)
    \/ SetCompletionData("notes", "done")
    \/ Fuel /\ HandleComplete
    \/ \E s \in Slots : HandleCompletePosted(s)
    \/ \E s \in Slots : HandleCompleteThen(s)
    \/ \E s \in Slots : HandleCompleteCatch(s)

SpecRetry == InitRetry /\ [][NextRetry]_vars

\* --- picking assignees in a form loaded from a template or a task
InitPick ==
    /\ sessionGroups = { "ADMIN" }
    /\ server = << Template(1, "a", Some(<< Acme >>), TRUE),
                   Template(2, "b", Some(<< Eve, Bolt >>), FALSE) >>
    /\ nextId = Len(server) + 1
    /\ \E c \in { "TaskTemplate", "TaskManager/TaskTemplate", "TaskModal" } :
         Mounted(c)
    /\ editMode = Modal

NextPick ==
    \/ \E s \in Slots : \E i \in 1..MaxId : ServerStep(s, i)
    \/ \E s \in Slots : FetchTemplatesThen(s)
    \/ \E s \in Slots : FetchTemplatesCatch(s)
    \/ \E sessionRead \in BOOLEAN : CheckAdminStatusDone(sessionRead)
    \/ \E k \in DOMAIN GroupedTemplates(templates) : ToggleGroup(k)
    \/ OpenCreate
    \/ CloseForm
    \/ \E t \in Range(templates) : HandleEdit(t)
    \/ Fuel /\ HandleSearchChange("ab")
    \/ \E s \in Slots : SearchAssigneesThen(s)
    \/ \E s \in Slots : SearchAssigneesCatch(s)
    \/ \E a \in Directory : HandleSelectAssignee(a)
    \/ \E a \in Directory : HandleRemoveAssignee(a.id)
    \/ \E s \in Slots : FlatFetchTemplatesThen(s)
    \/ FlatOpen
    \/ FlatClose
    \/ Fuel /\ FlatSearchChange("ab")
    \/ \E a \in Directory : FlatHandleSelectAssignee(a)
    \/ \E a \in Directory : FlatHandleRemoveAssignee(a.id)
    \/ \E sessionRead \in BOOLEAN : FetchUserGroupsThen(sessionRead)
    \/ \E i \in 1..Len(Tasks) : ParentShow(Some(serverTasks[i]), TRUE)
    \/ HandleClose
    \/ Fuel /\ HandleAssigneeSearch("ab")
    \/ \E s \in Slots : HandleAssigneeSearchThen(s)
    \/ \E s \in Slots : HandleAssigneeSearchCatch(s)
    \/ \E a \in Directory : HandleAssigneeSelect(a)
    \/ \E a \in Directory : ModalHandleRemoveAssignee(a.id)

SpecPick == InitPick /\ [][NextPick]_vars

\* ------------------------------------------------------------- properties
\* Where the groups hold templates: the pairs (group key, index).
Places(groups) ==
    { p \in (DOMAIN groups) \X (1..Len(templates)) : p[2] <= Len(groups[p[1]]) }

\* C1: the grouping is a total partition of the template list held by the
\* grouped component: each template is at exactly one place of exactly one
\* group, no group is empty, and the groups together hold the templates of
\* the list and nothing else, none twice.
C1_TotalPartition ==
    LET groups == GroupedTemplates(templates)
    IN /\ \A i \in 1..Len(templates) :
            Cardinality({ p \in Places(groups) :
                            groups[p[1]][p[2]] = templates[i] }) = 1
       /\ \A k \in DOMAIN groups : groups[k] # << >>
       /\ UNION { Range(groups[k]) : k \in DOMAIN groups } = Range(templates)
       /\ Cardinality(Places(groups)) = Len(templates)

\* Three templates in two groups, one of them expanded.
C1_Witness ==
    /\ Len(templates) = 3
    /\ DOMAIN GroupedTemplates(templates) = { "Acme", "unassigned" }
    /\ Len(GroupedTemplates(templates)["Acme"]) = 2
    /\ Truthy(expandedGroups, "Acme")

\* The name of the first assignee of type client, in assignee order, and
\* 'unassigned' without one.
FirstClientName(t) ==
    LET list == IF IsSome(t.assignees) THEN Get(t.assignees) ELSE << >>
        clients == { i \in 1..Len(list) : list[i].type = "client" }
    IN IF clients = {} THEN "unassigned"
       ELSE list[CHOOSE i \in clients : \A j \in clients : i <= j].name

\* C2: the group key of a template is the name of its first client-type
\* assignee, 'unassigned' when it has none (or no assignee list), and a group
\* holds the templates of its key in the order of the input list.
C2_GroupKeyAndOrder ==
    LET groups == GroupedTemplates(templates)
    IN /\ DOMAIN groups =
            { FirstClientName(templates[i]) : i \in 1..Len(templates) }
       /\ \A k \in DOMAIN groups :
            groups[k] = SelectSeq(templates, LAMBDA t : FirstClientName(t) = k)

\* The example: [{id:1, assignees:[client Acme]}, {id:2, assignees:[]}]
\* grouped as {Acme: [1], unassigned: [2]}, the second group opened.
C2_Witness ==
    /\ templates = << Template(1, "t", Some(<< Acme >>), TRUE),
                      Template(2, "t", Some(<< >>), TRUE) >>
    /\ GroupedTemplates(templates) =
         [ k \in { "Acme", "unassigned" } |->
             IF k = "Acme" THEN << templates[1] >> ELSE << templates[2] >> ]
    /\ Truthy(expandedGroups, "unassigned")

\* The group keys of a fetched list.
KeysOf(data) == { GroupKey(data[i]) : i \in 1..Len(data) }

\* C4: once a group key is expanded, no completion of fetchTemplates whose
\* response holds that key collapses it, whatever render the fetch was
\* started from.
C4_ExpandedSurvivesFetch ==
    [][ \A s \in Slots :
          FetchTemplatesThen(s) =>
            \A k \in KeysOf(Get(calls[s].reqs[1].data)) :
              Truthy(expandedGroups, k) => Truthy(expandedGroups', k) ]_vars

\* C5: after a successful fetchTemplates every group key of the fetched list
\* has an entry in expandedGroups, a key that was not in the map is collapsed,
\* a key that was in the map keeps its boolean, and no key leaves the map.
C5_FetchKeepsFlags ==
    [][ \A s \in Slots :
          FetchTemplatesThen(s) =>
            /\ KeysOf(Get(calls[s].reqs[1].data)) \subseteq DOMAIN expandedGroups'
            /\ \A k \in KeysOf(Get(calls[s].reqs[1].data)) \ DOMAIN expandedGroups :
                 expandedGroups'[k] = FALSE
            /\ \A k \in DOMAIN expandedGroups :
                 /\ k \in DOMAIN expandedGroups'
                 /\ expandedGroups'[k] = expandedGroups[k] ]_vars

\* The handlers that issue mutating requests.
MutationKinds ==
    { "submit", "flatSubmit", "toggleActive", "duplicate", "delete",
      "deleteGroup", "bulkCopy" }
\* The call is a fetchTemplates with its GET issued.
IsFetch(c) == c.kind = "fetch" /\ c.reqs = << Req("GET", 0, None) >>

Quiescent == \A s \in Slots : Free(s)

\* C10: whenever no request of the template component is in flight, its
\* template list equals the server's.
C10_QuiescentConsistent == Quiescent => templates = server

\* The list holds an entry of the id.
Holds(list, id) == \E i \in 1..Len(list) : list[i].id = id
\* after is before with one entry of the assignee's id appended.
AppendedTo(before, after, a) ==
    /\ Len(after) = Len(before) + 1
    /\ SubSeq(after, 1, Len(before)) = before
    /\ after[Len(after)].id = a.id
\* Selecting a held id changes nothing, selecting another appends it.
NoOpOrAppended(before, after, a) ==
    IF Holds(before, a.id) THEN after = before ELSE AppendedTo(before, after, a)
\* The entry of the assignee's id is the last one and the only one of its id,
\* the other entries are as before and in their order.
MovedToEnd(before, after, a) ==
    /\ after # << >>
    /\ after[Len(after)].id = a.id
    /\ after[Len(after)].name = a.name
    /\ SubSeq(after, 1, Len(after) - 1) =
         SelectSeq(before, LAMBDA e : e.id # a.id)

\* C6 (as stated): in the two template components and in the task modal,
\* selecting an assignee whose id the list holds leaves the list as it is,
\* and selecting another id appends it at the end.
C6_SelectPresentIsNoOp ==
    [][ \A a \in Directory :
          /\ HandleSelectAssignee(a) =>
               NoOpOrAppended(selectedAssignees, selectedAssignees', a)
          /\ FlatHandleSelectAssignee(a) =>
               NoOpOrAppended(Get(formData.assignees),
                              Get(formData'.assignees), a)
          /\ HandleAssigneeSelect(a) =>
               NoOpOrAppended(formData.assignees, formData'.assignees, a) ]_vars

\* C6 (amended): in the two template components selecting a held id leaves
\* the list as it is and selecting another id appends it; in the task modal
\* the selected id ends up as the last entry and the only one of its id (a
\* held entry is taken out and a rebuilt one appended), the others unchanged.
C6_SelectKeepsIdsUnique ==
    [][ \A a \in Directory :
          /\ HandleSelectAssignee(a) =>
               NoOpOrAppended(selectedAssignees, selectedAssignees', a)
          /\ FlatHandleSelectAssignee(a) =>
               NoOpOrAppended(Get(formData.assignees),
                              Get(formData'.assignees), a)
          /\ HandleAssigneeSelect(a) =>
               /\ MovedToEnd(formData.assignees, formData'.assignees, a)
               /\ ~Holds(formData.assignees, a.id) =>
                    AppendedTo(formData.assignees, formData'.assignees, a) ]_vars

\* The modal holds the first task, whose assignees are Acme then Eve, and
\* Acme, selected again, has moved behind Eve as a rebuilt entry.
C6_Witness ==
    /\ Modal
    /\ show
    /\ task = Some(Tasks[1])
    /\ formData.assignees = << Eve, Picked(Acme) >>
    /\ assigneeOptions = << >>

\* C7: in every search call site, typing a query of less than two characters
\* issues no search_assignees request and leaves the result list empty.
C7_ShortQueryNoRequest ==
    [][ \A q \in Queries :
          Len(q) < 2 =>
            /\ HandleSearchChange(q) =>
                 calls' = calls /\ searchResults' = << >>
            /\ FlatSearchChange(q) =>
                 calls' = calls /\ searchResults' = << >>
            /\ BulkSearchChange(q) =>
                 calls' = calls /\ newClientSearchResults' = << >>
            /\ HandleAssigneeSearch(q) =>
                 calls' = calls /\ assigneeOptions' = << >> ]_vars

\* C8: for an hours input h that is a multiple of 0.5 and a minutes input m,
\* the timesheet entry handleComplete posts has hours = floor(h) and
\* minutes = 60 * (h - floor(h)) + m, so 60 * hours + minutes = 60 * h + m
\* (h counted in 1/HoursDen hours).
C8_TimeDecomposition ==
    \A s \in Slots :
        calls[s].kind = "complete" =>
          LET h == calls[s].closure.completionData.hours
              m == calls[s].closure.completionData.minutes
              e == Get(calls[s].reqs[1].body)
          IN (2 * h) % HoursDen = 0 =>
               /\ e.hours * HoursDen <= h
               /\ h < (e.hours + 1) * HoursDen
               /\ e.minutes * HoursDen = 60 * (h - e.hours * HoursDen) + m * HoursDen
               /\ (60 * e.hours + e.minutes) * HoursDen = 60 * h + m * HoursDen

\* The example: h = 1.5 and m = 0 posted as hours = 1, minutes = 30.
C8_Witness ==
    \E s \in Slots :
        /\ calls[s].kind = "complete"
        /\ 2 * calls[s].closure.completionData.hours = 3 * HoursDen
        /\ calls[s].closure.completionData.minutes = 0
        /\ calls[s].reqs[1].status = "ok"
        /\ timesheet # << >>
        /\ timesheet[1].hours = 1
        /\ timesheet[1].minutes = 30

\* The component's copy of the template of an _id.
LocalCopy(id) == { templates[i] : i \in { j \in 1..Len(templates) :
                                            templates[j]._id = id } }

\* C11: handleToggleActive sends a PUT of the template whose body is the
\* component's copy of it with is_active the negation of the displayed status
\* and every other field as in the copy; when the server accepts it the whole
\* record is replaced by that body, whatever another client wrote to it since
\* the component's last fetch, and nothing is shown to the user.
C11_ToggleResendsRecord ==
    [][ /\ \A t \in Range(templates) :
             HandleToggleActive(t) \/ FlatHandleToggleActive(t) =>
               LET r == calls'[FreeSlot].reqs[1]
               IN /\ Len(calls'[FreeSlot].reqs) = 1
                  /\ r.method = "PUT"
                  /\ r.id = t._id
                  /\ Get(r.body).is_active = ~t.is_active
                  /\ \E local \in LocalCopy(t._id) :
                       /\ DOMAIN Get(r.body) = DOMAIN local
                       /\ \A f \in DOMAIN local \ { "is_active" } :
                            Get(r.body)[f] = local[f]
        /\ \A s \in Slots :
             /\ calls[s].kind = "toggleActive"
             /\ calls[s].reqs[1].status = "sent"
             /\ calls'[s].reqs[1].status = "ok"
             => /\ \E i \in 1..Len(server') :
                     server'[i] = Get(calls[s].reqs[1].body)
                /\ toasts' = toasts ]_vars

\* The lost update: another client gave template 1 the title x, and the
\* toggle that followed wrote the component's title a back with the flag.
C11_Witness ==
    \E s \in Slots :
        /\ calls[s].kind = "toggleActive"
        /\ Fulfilled(calls[s])
        /\ otherEdits = { [ id |-> 1, title |-> "x" ] }
        /\ server[1] = Template(1, "a", Some(<< Acme >>), FALSE)
        /\ toasts = {}

\* The employee-type entries of an assignee list, in its order.
EmployeesOf(t) ==
    SelectSeq(IF IsSome(t.assignees) THEN Get(t.assignees) ELSE << >>,
              LAMBDA a : a.type = "employee")

\* C12: handleBulkCopy to client B issues exactly one POST per template of
\* the selected group snapshot; the body of each has no _id, has every other
\* field but assignees equal to its source, and has as assignees the source's
\* employee-type assignees in source order followed by the one client-type
\* assignee {id: B.id, name: B.name}.
C12_BulkCopyBodies ==
    [][ \A newClient \in Clients :
          HandleBulkCopy(newClient) =>
            LET selected == Get(selectedClientTemplates)
                reqs == calls'[FreeSlot].reqs
            IN /\ Len(reqs) = Len(selected)
               /\ \A i \in 1..Len(selected) :
                    LET body == Get(reqs[i].body)
                    IN /\ reqs[i].method = "POST"
                       /\ DOMAIN body = (DOMAIN selected[i]) \ { "_id" }
                       /\ \A f \in DOMAIN body \ { "assignees" } :
                            body[f] = selected[i][f]
                       /\ Get(body.assignees) =
                            Append(EmployeesOf(selected[i]),
                                   [ id |-> newClient.id,
                                     name |-> newClient.name,
                                     type |-> "client" ])
                       /\ Cardinality({ j \in 1..Len(Get(body.assignees)) :
                                          Get(body.assignees)[j].type = "client"
                                       }) = 1 ]_vars

\* Both copies of Acme's templates to Bolt are on the server: the second
\* keeps Eve and has lost Acme and its own Bolt entry for the new one.
C12_Witness ==
    /\ Len(server) = 4
    /\ server[3].assignees = Some(<< Bolt >>)
    /\ server[3].title = "a"
    /\ server[4].assignees = Some(<< Eve, Bolt >>)
    /\ server[4].title = "b"
    /\ server[4].is_active = FALSE

\* C13: handleBulkCopy issues all its POSTs before it awaits any of them;
\* when one of them failed its catch leaves the server, the bulk copy modal,
\* its selection and the toasts as they are and issues no request, the POSTs
\* still on their way are not cancelled, and no DELETE is ever issued: what
\* the server has created stays.
C13_BulkCopyFailsPartially ==
    [][ /\ \A newClient \in Clients :
             HandleBulkCopy(newClient) =>
               /\ Len(calls'[FreeSlot].reqs) = Len(Get(selectedClientTemplates))
               /\ Statuses(calls'[FreeSlot]) = { "sent" }
        /\ \A s \in Slots :
             HandleBulkCopyCatch(s) =>
               /\ server' = server
               /\ bulkVars' = bulkVars
               /\ toasts' = toasts
               /\ templates' = templates
               /\ \A r \in Slots \ { s } : calls'[r] = calls[r]
               /\ IF "sent" \in Statuses(calls[s])
                  THEN /\ calls'[s].kind = "orphan"
                       /\ calls'[s].reqs = calls[s].reqs
                  ELSE calls'[s] = Idle
        /\ \A s \in Slots : \A i \in 1..Len(calls'[s].reqs) :
             calls'[s].reqs[i].method # "DELETE"
        /\ Len(server') >= Len(server)
        /\ SubSeq(server', 1, Len(server)) = server ]_vars

\* One of the two POSTs succeeded, the other failed; the catch has run: the
\* copy stays on the server, the modal is still open with its selection and
\* its search result, and no toast is shown.
C13_Witness ==
    /\ Quiescent
    /\ Len(server) = 3
    /\ Len(templates) = 2
    /\ isBulkCopyModalOpen
    /\ IsSome(selectedClientTemplates)
    /\ newClientSearchResults = << Bolt >>
    /\ toasts = {}

\* C14: handleComplete issues the timesheet POST first and the task PUT
\* (status 'complete', the completion notes) only once the POST has succeeded;
\* after a failed POST no PUT is issued; after a failed PUT the timesheet
\* entry is on the server and the task is as it was; the catch issues no
\* request and calls neither onSubmit nor onClose.
C14_TwoSequentialWrites ==
    [][ /\ HandleComplete =>
             /\ Len(calls'[FreeSlot].reqs) = 1
             /\ calls'[FreeSlot].reqs[1].method = "POST_ENTRY"
             /\ calls'[FreeSlot].reqs[1].status = "sent"
        /\ \A s \in Slots :
             calls'[s].kind = "complete" /\ Len(calls'[s].reqs) = 2 =>
               /\ calls'[s].reqs[1].method = "POST_ENTRY"
               /\ calls'[s].reqs[1].status = "ok"
               /\ Get(calls'[s].reqs[1].body) \in Range(timesheet')
               /\ calls'[s].reqs[2].method = "PUT_TASK"
               /\ calls'[s].reqs[2].id = calls'[s].closure.task._id
               /\ Get(calls'[s].reqs[2].body).status = "complete"
               /\ Get(calls'[s].reqs[2].body).completion_notes =
                    calls'[s].closure.completionData.notes
        /\ \A s \in Slots : \A i \in 1..Len(calls[s].reqs) :
             /\ calls[s].kind = "complete"
             /\ calls[s].reqs[i].status = "sent"
             /\ calls'[s].reqs[i].status = "err"
             => timesheet' = timesheet /\ serverTasks' = serverTasks
        /\ \A s \in Slots :
             HandleCompleteCatch(s) =>
               /\ calls' = [ calls EXCEPT ![s] = Idle ]
               /\ show' = show
               /\ submitted' = submitted
               /\ timesheet' = timesheet
               /\ serverTasks' = serverTasks
               /\ Len(calls[s].reqs) = 2 =>
                    Get(calls[s].reqs[1].body) \in Range(timesheet') ]_vars

\* The POST of task 1's entry succeeded and the PUT failed; the catch has
\* run: the entry is on the server, the task is still pending, the modal is
\* still shown and onSubmit was not called.
C14_Witness ==
    /\ Quiescent
    /\ started = 1
    /\ Len(timesheet) = 1
    /\ timesheet[1].item = 1
    /\ serverTasks[1].status = "pending"
    /\ show
    /\ task = Some(Tasks[1])
    /\ isCompleting
    /\ submitted = << >>

\* C15: over any sequence of opening, closing and re-opening the modal, the
\* completing state is not active while the modal shows a task whose status
\* is 'complete', and handleComplete is not invoked (no timesheet entry is
\* posted) for such a task.
C15_NoCompletingOfCompleteTask ==
    [][ /\ show' /\ IsSome(task') /\ Get(task').status = "complete"
             => ~isCompleting'
        /\ HandleComplete => Get(task).status # "complete" ]_vars

\* C16: when a request of a template mutation (create, update, toggle-active,
\* duplicate, delete, group delete, bulk copy) was refused with 403, the
\* handler's catch shows a toast; after any other failure it shows none.
C16_ForbiddenShowsToast ==
    [][ \A s \in Slots :
          /\ calls[s].kind \in MutationKinds
          /\ Rejected(calls[s])
          /\ calls'[s].kind \notin MutationKinds
          => IF "forbidden" \in Statuses(calls[s])
             THEN toasts' # toasts
             ELSE toasts' = toasts ]_vars

\* after is before without the entries of the id, the others in their order.
RemovedFrom(before, after, id) ==
    after = SelectSeq(before, LAMBDA e : e.id # id)
\* The step issues no request and leaves the server, the fetched list, and
\* which form is open as they are.
OnlyEditBuffer ==
    /\ calls' = calls
    /\ serverVars' = serverVars
    /\ listVars' = listVars
    /\ << isOpen, editingTemplate, show, task, submitted >>' =
         << isOpen, editingTemplate, show, task, submitted >>

\* C17: in the three components, selecting or removing an assignee changes
\* the form's edit buffer only: it issues no request and the server's
\* templates and tasks stay as they are; removal takes out exactly the
\* entries of the given id and keeps the others in their order.
C17_AssigneeEditsAreLocal ==
    [][ \A a \in Directory :
          /\ HandleSelectAssignee(a) \/ FlatHandleSelectAssignee(a)
               \/ HandleAssigneeSelect(a) => OnlyEditBuffer
          /\ HandleRemoveAssignee(a.id) =>
               /\ OnlyEditBuffer
               /\ RemovedFrom(selectedAssignees, selectedAssignees', a.id)
               /\ RemovedFrom(selectedAssignees, Get(formData'.assignees), a.id)
          /\ FlatHandleRemoveAssignee(a.id) =>
               /\ OnlyEditBuffer
               /\ RemovedFrom(Get(formData.assignees),
                              Get(formData'.assignees), a.id)
          /\ ModalHandleRemoveAssignee(a.id) =>
               /\ OnlyEditBuffer
               /\ RemovedFrom(formData.assignees, formData'.assignees, a.id)
        ]_vars

\* The modal holds task 1 (assignees Acme, Eve); Acme was removed from the
\* form, and the server's task still has both.
C17_Witness ==
    /\ Modal
    /\ show
    /\ task = Some(Tasks[1])
    /\ formData.assignees = << Eve >>
    /\ serverTasks[1].assignees = Some(<< Acme, Eve >>)
    /\ Quiescent

\* C18: the template form issues no create or update request while one of
\* its required fields (title, description, job_type) is empty.
C18_RequiredGatesSubmit ==
    [][ (HandleSubmit \/ FlatHandleSubmit) /\ calls' # calls =>
          \A f \in RequiredFields : formData[f] # "" ]_vars

\* C19: the template list of a template component changes only when a GET
\* of the full list has succeeded and fetchTemplates handles its response,
\* and then it becomes that response; no mutating handler, none of their
\* responses or failures, and no failed GET changes it.
C19_OnlyFetchWritesTemplates ==
    [][ /\ templates' # templates =>
             \E s \in Slots :
                 /\ calls[s].kind = "fetch"
                 /\ Len(calls[s].reqs) = 1
                 /\ calls[s].reqs[1].method = "GET"
                 /\ calls[s].reqs[1].status = "ok"
                 /\ templates' = Get(calls[s].reqs[1].data)
                 /\ calls'[s] = Idle
        /\ \A s \in Slots :
             \/ calls[s].kind \in MutationKinds
             \/ calls[s].kind = "fetch" /\ ~Fulfilled(calls[s])
             \/ calls'[s].kind \in MutationKinds
             => (calls'[s] # calls[s] => templates' = templates) ]_vars

\* A bulk copy has created both copies on the server and its handler has
\* gone on to fetchTemplates, whose GET is not answered yet: the component
\* still holds the two templates it fetched before.
C19_Witness ==
    \E s \in Slots :
        /\ IsFetch(calls[s])
        /\ calls[s].by = "bulkCopy"
        /\ calls[s].reqs[1].status = "sent"
        /\ Len(server) = 4
        /\ Len(templates) = 2

\* The handlers that search assignees.
SearchKinds == { "searchAssignees", "searchClients", "assigneeSearch" }
\* The assignees of a search response.
Answer(c) ==
    IF IsSome(Get(c.reqs[1].data)) THEN Get(Get(c.reqs[1].data)) ELSE << >>

\* C20: search responses are neither ordered nor cancelled: a search in
\* flight stays in flight whatever the user types or selects, until its own
\* response is handled; and a handled response is written to the displayed
\* results whatever the current search text is and whatever responses were
\* handled before it.
C20_StaleSearchOverwrites ==
    [][ /\ \A s \in Slots :
             /\ SearchAssigneesThen(s) => searchResults' = Answer(calls[s])
             /\ SearchClientsThen(s) =>
                  newClientSearchResults' =
                    SelectSeq(Answer(calls[s]), LAMBDA a : a.type = "client")
             /\ HandleAssigneeSearchThen(s)
                  /\ IsSome(Get(calls[s].reqs[1].data)) =>
                    assigneeOptions' =
                      SelectSeq(Answer(calls[s]),
                                LAMBDA a : ~Holds(calls[s].closure, a.id))
        /\ \A s \in Slots :
             calls[s].kind \in SearchKinds /\ calls'[s] # calls[s] =>
               IF calls[s].reqs[1].status = "sent"
               THEN calls'[s] =
                      [ calls[s] EXCEPT !.reqs[1].status = calls'[s].reqs[1].status,
                                        !.reqs[1].data = calls'[s].reqs[1].data ]
               ELSE calls'[s] = Idle ]_vars

\* In the grouped component "a" was typed, then "ab"; the response to "ab"
\* was handled first and the response to "a" after it: the results shown
\* under the search text "ab" are those of "a".
C20_Witness ==
    /\ Grouped
    /\ searchLog = << Asked("a"), Asked("ab"), Handled("ab"), Handled("a") >>
    /\ searchQuery = "ab"
    /\ searchResults = << Bolt >>

\* The flags of the groups other than groupKey.
OtherFlags(map, groupKey) ==
    [ k \in (DOMAIN map) \ { groupKey } |-> map[k] ]

\* C21: toggleGroup(k) negates the flag of k and nothing else: the flags of
\* the other group keys, the template list, the form state and everything
\* else stay as they are, and it issues no request; a second toggle of the
\* same key gives the flags back as they were.
C21_ToggleGroupIsLocal ==
    [][ \A k \in DOMAIN GroupedTemplates(templates) :
          ToggleGroup(k) =>
            /\ Truthy(expandedGroups', k) = ~Truthy(expandedGroups, k)
            /\ OtherFlags(expandedGroups', k) = OtherFlags(expandedGroups, k)
            /\ templates' = templates
            /\ formVars' = formVars
            /\ << calls, serverVars, searchVars, adminVars, bulkVars >>' =
                 << calls, serverVars, searchVars, adminVars, bulkVars >>
            /\ k \in DOMAIN expandedGroups
            /\ Toggled(expandedGroups', k) = expandedGroups ]_vars

\* Both groups of the fetched list are there, the group of Acme was expanded
\* by a toggle and the other one is still collapsed.
C21_Witness ==
    /\ Grouped
    /\ templates = server
    /\ Len(templates) = 2
    /\ DOMAIN expandedGroups = { "Acme", "unassigned" }
    /\ expandedGroups["Acme"]
    /\ ~expandedGroups["unassigned"]

\* C22: whenever show becomes false, formData is set to its defaults (empty
\* title, description and due_date, priority 'medium', status 'pending', no
\* assignees, zero hours) with visible_to the user's groups, and the
\* assignee options are cleared; while the modal is closed the edit buffer
\* holds these defaults and no field of a task.
C22_ResetOnClose ==
    [][ /\ Modal /\ show /\ ~show' =>
             /\ formData' =
                  [ title |-> "", description |-> "", priority |-> "medium",
                    status |-> "pending", due_date |-> "", assignees |-> << >>,
                    visible_to |-> userGroups, estimated_hours |-> 0,
                    actual_hours |-> 0 ]
             /\ assigneeOptions' = << >>
        /\ Modal /\ ~show' =>
             formData' =
               [ title |-> "", description |-> "", priority |-> "medium",
                 status |-> "pending", due_date |-> "", assignees |-> << >>,
                 visible_to |-> userGroups', estimated_hours |-> 0,
                 actual_hours |-> 0 ] ]_vars

\* Task 1 was shown and its form submitted, and the modal is closed again: the
\* form holds the defaults with the user's groups, the options are empty.
C22_Witness ==
    /\ Modal
    /\ ~show
    /\ task = Some(Tasks[1])
    /\ userGroups = << "ADMIN" >>
    /\ formData = ResetModalForm(<< "ADMIN" >>)
    /\ assigneeOptions = << >>
    /\ submitted # << >>
    /\ Quiescent

\* The _ids of the templates of a group of the list.
IdsOfGroup(list, k) ==
    { list[i]._id : i \in { j \in 1..Len(list) : GroupKey(list[j]) = k } }

\* C23: a confirmed group delete issues, at once, exactly one DELETE per
\* template of the clicked group and none for a template of another group;
\* fetchTemplates follows only when every DELETE succeeded; a declined
\* confirmation (of a single or of a group delete) issues no request and
\* changes nothing; no group delete is started and no bulk copy is opened for
\* the templates of the 'unassigned' group.
C23_GroupDelete ==
    [][ /\ \A k \in DOMAIN GroupedTemplates(templates) :
             /\ HandleDeleteGroup(k, TRUE) =>
                  LET reqs == calls'[FreeSlot].reqs
                  IN /\ calls'[FreeSlot].kind = "deleteGroup"
                     /\ \A s \in Slots \ { FreeSlot } : calls'[s] = calls[s]
                     /\ Len(reqs) = Cardinality(IdsOfGroup(templates, k))
                     /\ { reqs[i].id : i \in 1..Len(reqs) } =
                          IdsOfGroup(templates, k)
                     /\ \A i \in 1..Len(reqs) :
                          reqs[i].method = "DELETE" /\ reqs[i].status = "sent"
                     /\ k # "unassigned"
             /\ HandleDeleteGroup(k, FALSE) => UNCHANGED vars
        /\ \A t \in Range(templates) : HandleDelete(t, FALSE) => UNCHANGED vars
        /\ \A s \in Slots :
             /\ calls[s].kind # "deleteGroup" /\ calls'[s].kind = "deleteGroup"
                  => \E k \in DOMAIN GroupedTemplates(templates) :
                       HandleDeleteGroup(k, TRUE)
             /\ calls[s].kind = "deleteGroup" /\ calls'[s].kind = "fetch"
                  => /\ Statuses(calls[s]) = { "ok" }
                     /\ IsFetch(calls'[s])
             /\ calls[s].kind = "deleteGroup" /\ Rejected(calls[s])
                  => calls'[s].kind # "fetch"
             /\ calls[s].kind = "orphan" => calls'[s].kind # "fetch"
        /\ ~isBulkCopyModalOpen /\ isBulkCopyModalOpen' =>
             \E k \in DOMAIN GroupedTemplates(templates) \ { "unassigned" } :
                 selectedClientTemplates' = Some(GroupedTemplates(templates)[k])
      ]_vars

\* The group of Acme (templates 1 and 2) was deleted: both are gone from the
\* server, the templates of the other groups are there, and the list was
\* fetched again.
C23_Witness ==
    /\ Grouped
    /\ Quiescent
    /\ started = 1
    /\ { server[i]._id : i \in 1..Len(server) } = { 3, 4 }
    /\ templates = server

\* C24: while isAdmin is false (before checkAdminStatus has resolved, after
\* it failed, and for a session without the ADMIN group), submitting the
\* template form issues no request, shows the permission toast, and leaves
\* the modal open, the form data, the template being edited and the server
\* as they are.
C24_ClientSideGate ==
    [][ HandleSubmit /\ ~isAdmin =>
          /\ calls' = calls
          /\ started' = started
          /\ "no permission to create or edit" \in toasts'
          /\ isOpen'
          /\ formVars' = formVars
          /\ serverVars' = serverVars
          /\ listVars' = listVars ]_vars

\* The session has the ADMIN group but could not be read: isAdmin is false,
\* the form of template 1 was submitted, the toast is there, the modal is
\* still open on template 1 and no handler was started.
C24_Witness ==
    /\ Grouped
    /\ "ADMIN" \in sessionGroups
    /\ authSession = "done"
    /\ ~isAdmin
    /\ isOpen
    /\ IsSome(editingTemplate)
    /\ toasts = { "no permission to create or edit" }
    /\ started = 0
    /\ Quiescent

\* C25: in the grouped component a closed modal has no template being edited
\* and holds the form's defaults; the template being edited is set by Edit,
\* cleared by Create Template, and does not change while the modal stays
\* open; so a submit issues a PUT to the id of the template the modal was
\* opened on by Edit, and a POST when it was opened by Create Template,
\* whatever submit responses are on their way.
C25_CreateEditRouting ==
    [][ Grouped =>
          /\ ~isOpen' =>
               /\ editingTemplate' = None
               /\ formData' = DefaultForm
               /\ selectedAssignees' = << >>
          /\ \A t \in Range(templates) :
               HandleEdit(t) => isOpen' /\ editingTemplate' = Some(t)
          /\ OpenCreate => isOpen' /\ editingTemplate' = None
          /\ isOpen /\ isOpen' => editingTemplate' = editingTemplate
          /\ ~isOpen /\ isOpen' =>
               OpenCreate \/ \E t \in Range(templates) : HandleEdit(t)
          /\ HandleSubmit /\ calls' # calls =>
               LET r == calls'[FreeSlot].reqs[1]
               IN /\ Len(calls'[FreeSlot].reqs) = 1
                  /\ IF IsSome(editingTemplate)
                     THEN r.method = "PUT" /\ r.id = Get(editingTemplate)._id
                     ELSE r.method = "POST" ]_vars

\* Template 1 was edited and submitted; while its PUT was on its way the
\* modal was cancelled and opened again by Create Template, and that form
\* was submitted too: its request is a POST.
C25_Witness ==
    /\ Grouped
    /\ isOpen
    /\ editingTemplate = None
    /\ calls[1].kind = "submit"
    /\ calls[1].reqs[1].method = "PUT"
    /\ calls[1].reqs[1].id = 1
    /\ calls[1].reqs[1].status = "sent"
    /\ calls[2].kind = "submit"
    /\ calls[2].reqs[1].method = "POST"

\* The calls of the template form's handleSubmit.
SubmitKinds == { "submit", "flatSubmit" }

\* C26: when the create or update request of the template form (of either
\* template component) has failed, the handler leaves the modal, formData,
\* the selected assignees, the template being edited and the template list
\* as they are and starts no fetch; the handler closes the modal and resets
\* the form only when the request succeeded, and then it goes on to
\* fetchTemplates.
C26_SubmitFailureKeepsState ==
    [][ \A s \in Slots :
          /\ HandleSubmitCatch(s) \/ FlatHandleSubmitCatch(s) =>
               /\ Rejected(calls[s])
               /\ formVars' = formVars
               /\ listVars' = listVars
               /\ serverVars' = serverVars
               /\ calls' = [ calls EXCEPT ![s] = Idle ]
          /\ calls[s].kind \in SubmitKinds /\ calls'[s] # calls[s]
               /\ calls[s].reqs[1].status # "sent" =>
               IF calls[s].reqs[1].status = "ok"
               THEN /\ IsFetch(calls'[s])
                    /\ ~isOpen'
                    /\ formData' = DefaultForm
                    /\ Grouped =>
                         selectedAssignees' = << >> /\ editingTemplate' = None
               ELSE /\ calls'[s] = Idle
                    /\ formVars' = formVars
                    /\ templates' = templates ]_vars

\* A form with a title typed in was submitted and the request failed; the
\* catch has run: the modal is open with the title still in the form, the
\* server has created nothing and no request is on its way.
C26_Witness ==
    /\ started = 1
    /\ Quiescent
    /\ isOpen
    /\ formData.title = "t"
    /\ Len(server) = 1
    /\ templates = server

\* The timesheet entries the server holds for a task.
EntriesOf(id) == { i \in 1..Len(timesheet) : timesheet[i].item = id }

\* C27: over any sequence of mark-complete, confirm clicks (repeated while
\* requests are on their way, or after a failure) and request failures, the
\* server holds at most one timesheet entry per task.
C27_OneEntryPerTask ==
    \A id \in 1..Len(Tasks) : Cardinality(EntriesOf(id)) <= 1

\* C28: when the completion inputs respect the bounds of the form (hours a
\* non-negative multiple of 0.5, additional minutes in 0..59), the minutes
\* of the timesheet entry handleComplete posts are in 0..59.
C28_MinutesInRange ==
    \A s \in Slots :
        calls[s].kind = "complete" =>
          LET h == calls[s].closure.completionData.hours
              m == calls[s].closure.completionData.minutes
          IN h >= 0 /\ (2 * h) % HoursDen = 0 /\ m \in 0..59 =>
               Get(calls[s].reqs[1].body).minutes \in 0..59

\* C30: every timesheet entry the completion flow posts for non-negative
\* inputs accounts for some time: 60 * hours + minutes > 0 (the Complete
\* Task button is enabled only when the hours or the minutes are not zero).
C30_NoZeroTimeEntry ==
    \A s \in Slots :
        calls[s].kind = "complete" =>
          LET h == calls[s].closure.completionData.hours
              m == calls[s].closure.completionData.minutes
              e == Get(calls[s].reqs[1].body)
          IN /\ ~(h = 0 /\ m = 0)
             /\ h >= 0 /\ m >= 0 => 60 * e.hours + e.minutes > 0

\* No two entries of the list have the same id.
UniqueIds(list) ==
    \A i, j \in 1..Len(list) : i # j => list[i].id # list[j].id

=============================================================================
